---- MODULE Spec2Model ----
(***************************************************************************)
(* HTTP-X core: Secure Slab reference counts and versions, Linear Intent   *)
(* Trie, Session credit and pivot, Predictive Engine with shadow-swap,     *)
(* and the Core Dispatcher's submit / reap accounting.                     *)
(*                                                                         *)
(* Unsigned machine words (usize, u32) are written in their two's          *)
(* complement reading around zero: the word 2^w - 1 is written -1, so that *)
(* a wrapping fetch_sub on 0 gives -1 and the unsigned test "x > 0" is     *)
(* "x # 0".  All bounds keep the values within a few units of zero.        *)
(***************************************************************************)
EXTENDS Integers, Sequences, FiniteSets, TLC

VARIABLES
    ref_counts,     \* SecureSlab.ref_counts : slot -> usize
    version_ids,    \* SecureSlab.version_ids : slot -> u32
    slabOp,         \* the last slab call: its thread, what it saw and how it ended
    rc_returned,    \* ghost: per slot, increment_rc calls minus decrement_rc calls that returned to a slab thread
    sq,             \* io_uring submission queue: entries pushed, not yet taken by the kernel
    kernel,         \* user_data of submissions the kernel is executing
    cq,             \* io_uring completion queue: completions not yet reaped
    dpc,            \* position of the worker inside submit_linked_burst / on_packet
    dloc,           \* locals of the call the worker is executing
    dres,           \* outcome of the worker's last submit_linked_burst
    pivoted,        \* peers for which the worker has handled Pivot(addr)
    pushes,         \* ghost: per peer, speculative pushes submitted after its Pivot was handled
    sent,           \* ghost: per peer, speculative pushes submitted while counted
    killed,         \* ghost: the worker has handled KillAll
    active,         \* PredictiveEngine.active
    tries,          \* heap of LinearIntentTrie allocations: id -> [live, trie]
    trie_ptr,       \* PredictiveEngine.trie : the atomic pointer (an id of tries)
    garbage,        \* deferred destructions: set of [ptr, waiting]
    published,      \* ghost: id -> the trie value as it was when swap_weights installed it
    iiw_credit,     \* Session.iiw_credit
    canceled,       \* Session.canceled
    mode,           \* Session.mode
    epc,            \* per engine thread: position inside the call it executes
    eloc,           \* per engine thread: locals of that call
    hist,           \* ghost: per-session history counters of finished calls
    grants,         \* ghost: consume_credit calls that returned, and those that returned true, while counted
    learn_q,        \* learning channel (learn_tx -> learn_rx): events not yet received
    control_q,      \* per worker: its control channel (control_tx -> control_rx)
    installed,      \* per worker: the trie its engine has installed
    server_trie,    \* HttpxServer.trie, cloned into every worker at start
    shadow_trie,    \* ClusterOrchestrator.shadow_trie
    events_since_swap,  \* ClusterOrchestrator.events_since_swap
    elapsed,        \* time since ClusterOrchestrator.last_swap, in ticks of TickMs
    opc,            \* position of the orchestrator: [pc, to, snapshot]
    ver_returned,   \* ghost: per slot, the values increment_version returned since the last set_version
    trie_self,      \* a LinearIntentTrie whose methods are called directly (their self)
    trieOp,         \* the last call on trie_self: its arguments, the trie before it and its result
    mon,            \* ClusterStability: [mode, consecutive_misses, consecutive_stable]
    monRun,         \* ghost: [misses, successes] recorded in a row up to now
    cc,             \* DefaultCongestionController: [base_rtt, active_level]
    ccOp,           \* the last call on cc: its argument, how it ended, and whether a loss was notified
    bridge,         \* an SqBridge: [head, tail, buffer, mask]
    bth,            \* where its producer and its consumer are in try_push and pop, and their locals
    blog,           \* ghost: the items try_push stored and the items pop returned, in order
    gossip,         \* a GossipProtocol: [last_seq, forwarded], forwarded being what went into tx_delta
    gl,             \* per task running listen: [pc, current, delta]
    slab_map        \* the mapping of the SecureSlab: [huge_mode, slots, total_len, prot]

slabVars == <<ref_counts, version_ids, slabOp, rc_returned>>
ringVars == <<sq, kernel, cq>>
dispVars == <<dpc, dloc, dres, pivoted, pushes, sent, killed>>
engineVars == <<active, tries, trie_ptr, garbage, published>>
sessVars == <<iiw_credit, canceled, mode>>
threadVars == <<epc, eloc, hist, grants>>
orchVars == <<learn_q, control_q, installed, server_trie, shadow_trie, events_since_swap,
              elapsed, opc>>
auxVars == <<bridge, bth, blog, gossip, gl, slab_map>>
libVars == <<ver_returned, trie_self, trieOp, mon, monRun, cc, ccOp, auxVars>>
vars == <<ref_counts, version_ids, slabOp, rc_returned, sq, kernel, cq, dpc, dloc, dres,
          pivoted, pushes, sent, killed, active, tries, trie_ptr, garbage, published,
          iiw_credit, canceled, mode, epc, eloc, hist, grants, learn_q, control_q, installed,
          server_trie, shadow_trie, events_since_swap, elapsed, opc,
          ver_returned, trie_self, trieOp, mon, monRun, cc, ccOp,
          bridge, bth, blog, gossip, gl, slab_map>>

----------------------------------------------------------------------------
(* Bounds of the model *)

NumSlots == 2          \* slots of the SecureSlab (SecureSlab::new(slots))
MaxRc == 3             \* increment_rc is not called on a count already at MaxRc
MaxUnderflow == 2      \* decrement_rc is not called on a count wrapped this far
MaxVersion == 1        \* versions written by set_version are 0..MaxVersion

Slots == 0 .. (NumSlots - 1)
HandleArgs == {0, 1, NumSlots}     \* slot arguments of the calls: two slots, and one out of range
PayloadArgs == {1, NumSlots}       \* payload handles passed to submit_linked_burst
VersionedSlots == {1}              \* slots whose version the owner rewrites
SlabThreads == {"ta", "tb"}

Min(a, b) == IF a < b THEN a ELSE b

----------------------------------------------------------------------------
(* Linear Intent Trie (crates/httpx-dsa/src/trie.rs) *)

NULL_NODE == -1        \* u32::MAX

NewNode == [children |-> <<NULL_NODE, NULL_NODE>>, weights |-> <<0, 0>>,
            payload_handle |-> 0, version_id |-> 0, semantic_mask |-> 0, flags |-> 0]

\* LinearIntentTrie::new : the pool holds the root only (node i is nodes[i+1])
NewTrie == [nodes |-> <<NewNode>>, sequence_number |-> 0]

\* ((byte >> i) & 1) for i = 7 down to 0
ByteBits(byte) == [k \in 1..8 |-> (byte \div (2 ^ (8 - k))) % 2]

RECURSIVE BitPath(_)
BitPath(context) ==
    IF context = <<>> THEN <<>>
    ELSE ByteBits(Head(context)) \o BitPath(Tail(context))

\* the read-only walk shared by get_probability, associate_payload and
\* get_node_at_path: the index reached, or NULL_NODE when a child is missing
RECURSIVE WalkFrom(_, _, _)
WalkFrom(nodes, curr, bits) ==
    IF bits = <<>> THEN curr
    ELSE LET next == nodes[curr + 1].children[Head(bits) + 1]
         IN  IF next = NULL_NODE THEN NULL_NODE
             ELSE WalkFrom(nodes, next, Tail(bits))

\* lines 110 and 144: let new_idx = self.nodes.len() as u32
NewIndex_Last(nodes) == Len(nodes) - 1
NewIndex(nodes) == Len(nodes)

\* the extending walk shared by observe and warm: <<nodes', index reached>>
RECURSIVE ExtendFrom(_, _, _)
ExtendFrom(nodes, curr, bits) ==
    IF bits = <<>> THEN <<nodes, curr>>
    ELSE LET bit == Head(bits)
             next == nodes[curr + 1].children[bit + 1]
         IN  IF next = NULL_NODE
             THEN LET new_idx == NewIndex(nodes)
                      linked == [nodes EXCEPT ![curr + 1].children[bit + 1] = new_idx]
                  IN  ExtendFrom(Append(linked, NewNode), new_idx, Tail(bits))
             ELSE ExtendFrom(nodes, next, Tail(bits))

\* a probability is the exact fraction num/den (0.0 is 0/1)
get_probability(trie, context, next_bit) ==
    LET curr == WalkFrom(trie.nodes, 0, BitPath(context))
    IN  IF curr = NULL_NODE THEN [num |-> 0, den |-> 1]
        ELSE LET node == trie.nodes[curr + 1]
                 weight == node.weights[(IF next_bit THEN 1 ELSE 0) + 1]
                 total == node.weights[1] + node.weights[2]
             IN  IF total = 0 THEN [num |-> 0, den |-> 1]
                 ELSE [num |-> weight, den |-> total]

\* lines 130-132: if *weight < 255 { *weight += 1 }
Bump_Wrapping(w) == (w + 1) % 256
Bump(w) == IF w < 255 THEN w + 1 ELSE w

observe(trie, context, next_bit) ==
    LET r == ExtendFrom(trie.nodes, 0, BitPath(context))
        b == (IF next_bit THEN 1 ELSE 0) + 1
        w == r[1][r[2] + 1].weights[b]
    IN  [trie EXCEPT !.nodes = [r[1] EXCEPT ![r[2] + 1].weights[b] = Bump(w)]]

warm_Observing(trie, path) == observe(trie, path, TRUE)
warm(trie, path) ==
    [trie EXCEPT !.nodes = ExtendFrom(trie.nodes, 0, BitPath(path))[1]]

associate_payload_Extending(trie, context, handle, version_id) ==
    LET r == ExtendFrom(trie.nodes, 0, BitPath(context))
    IN  [trie EXCEPT !.nodes = [r[1] EXCEPT ![r[2] + 1].payload_handle = handle,
                                            ![r[2] + 1].version_id = version_id]]
associate_payload(trie, context, handle, version_id) ==
    LET curr == WalkFrom(trie.nodes, 0, BitPath(context))
    IN  IF curr = NULL_NODE THEN trie
        ELSE [trie EXCEPT !.nodes[curr + 1].payload_handle = handle,
                          !.nodes[curr + 1].version_id = version_id]

\* Option<&TrieNode>: <<>> is None, <<node>> is Some(node)
get_node_at_path(trie, path) ==
    LET curr == WalkFrom(trie.nodes, 0, BitPath(path))
    IN  IF curr = NULL_NODE THEN <<>> ELSE <<trie.nodes[curr + 1]>>

\* line 198: the test that lets merge_newer go on
IsNewer_OrEqual(other, self) == other.sequence_number >= self.sequence_number
IsNewer(other, self) == other.sequence_number > self.sequence_number

\* lines 209-210: (a as u16 + b as u16).min(255) as u8
MergeWeight_Wrapping(a, b) == (a + b) % 256
MergeWeight(a, b) == Min(a + b, 255)

\* lines 207-216, for one index
MergeNode(mine, theirs) ==
    LET summed == [mine EXCEPT !.weights = <<MergeWeight(mine.weights[1], theirs.weights[1]),
                                             MergeWeight(mine.weights[2], theirs.weights[2])>>]
    IN  IF theirs.version_id > mine.version_id
        THEN [summed EXCEPT !.version_id = theirs.version_id,
                            !.payload_handle = theirs.payload_handle]
        ELSE summed

\* merge_newer: [trie |-> self afterwards, ret |-> the bool returned]
merge_newer(self, other) ==
    IF ~IsNewer(other, self) THEN [trie |-> self, ret |-> FALSE]
    ELSE IF Len(self.nodes) = Len(other.nodes)
         THEN [trie |-> [nodes |-> [i \in 1..Len(self.nodes) |->
                                        MergeNode(self.nodes[i], other.nodes[i])],
                         sequence_number |-> other.sequence_number],
               ret |-> TRUE]
         ELSE [trie |-> self, ret |-> FALSE]

\* An f32 that is zero or a positive normal number: [m, e] is m * 2^(-e)
\* with 2^23 <= m < 2^24; zero is [m |-> 0, e |-> 0].
F32Zero == [m |-> 0, e |-> 0]
F32One == [m |-> 2 ^ 23, e |-> 23]

\* a mantissa that rounding carried up to 2^24 moves to the next binade
F32Pack(m, e) == IF m = 2 ^ 24 THEN [m |-> 2 ^ 23, e |-> e - 1] ELSE [m |-> m, e |-> e]

\* round to nearest, ties to even: q is the kept part, the dropped part is
\* rem/unit of one unit in the last place
F32Round_TowardZero(q, rem, unit) == q
F32Round(q, rem, unit) ==
    IF 2 * rem > unit \/ (2 * rem = unit /\ q % 2 = 1) THEN q + 1 ELSE q

\* line 98: weight as f32 / total as f32, by long division (0 < num <= den < 2^9)
RECURSIVE F32Quotient(_, _, _, _)
F32Quotient(q, r, e, den) ==
    IF q >= 2 ^ 23 THEN F32Pack(F32Round(q, r, den), e)
    ELSE F32Quotient(2 * q + ((2 * r) \div den), (2 * r) % den, e + 1, den)

F32Div(num, den) ==
    IF num = 0 THEN F32Zero ELSE F32Quotient(num \div den, num % den, 0, den)

\* x + y in f32 for the values above
F32Add(x, y) ==
    IF x.m = 0 THEN y
    ELSE IF y.m = 0 THEN x
    ELSE LET big == IF x.e <= y.e THEN x ELSE y
             small == IF x.e <= y.e THEN y ELSE x
             unit == 2 ^ (small.e - big.e)
             whole == big.m + (small.m \div unit)
             rest == small.m % unit
         IN  IF whole < 2 ^ 24 THEN F32Pack(F32Round(whole, rest, unit), big.e)
             ELSE F32Pack(F32Round(whole \div 2, (whole % 2) * unit + rest, 2 * unit),
                          big.e - 1)

\* get_probability as the f32 it returns
get_probability_f32(trie, context, next_bit) ==
    LET p == get_probability(trie, context, next_bit)
    IN  F32Div(p.num, p.den)

----------------------------------------------------------------------------
(* Secure Slab: reference counts and versions (crates/httpx-dsa/src/slab.rs) *)

\* assert!(idx < self.slots)
InRange(idx) == idx \in Slots

\* fetch_add(1): wrapping on the machine word
increment_rc(rc, idx) == [rc EXCEPT ![idx] = @ + 1]

\* fetch_sub(1) is applied first (wrapping); the panic test on the previous
\* value comes after the store
decrement_rc(rc, idx) == [rc EXCEPT ![idx] = @ - 1]
decrement_rc_panics(rc, idx) == rc[idx] = 0

\* load(Acquire) > 0 on an unsigned word
explicit_release_panics(rc, idx) == rc[idx] # 0
is_in_flight(rc, idx) == rc[idx] # 0

get_version(ver, idx) == ver[idx]
set_version(ver, idx, version) == [ver EXCEPT ![idx] = version]

NoSlabOp == [thread |-> "none", op |-> "none", idx |-> 0, seen |-> 0, panicked |-> FALSE]

SlabInit ==
    /\ ref_counts = [i \in Slots |-> 0]
    /\ version_ids = [i \in Slots |-> 0]
    /\ slabOp = NoSlabOp
    /\ rc_returned = [i \in Slots |-> 0]

\* a call whose index assertion fails: nothing is touched
SlabOutOfRange(t, name, idx) ==
    /\ ~InRange(idx)
    /\ slabOp' = [thread |-> t, op |-> name, idx |-> idx, seen |-> 0, panicked |-> TRUE]
    /\ UNCHANGED <<ref_counts, version_ids, rc_returned>>

SlabIncrementRc(t, idx) ==
    \/ SlabOutOfRange(t, "increment_rc", idx)
    \/ /\ InRange(idx)
       /\ ref_counts[idx] < MaxRc /\ rc_returned[idx] < MaxRc
       /\ ref_counts' = increment_rc(ref_counts, idx)
       /\ slabOp' = [thread |-> t, op |-> "increment_rc", idx |-> idx,
                        seen |-> ref_counts[idx], panicked |-> FALSE]
       /\ rc_returned' = [rc_returned EXCEPT ![idx] = @ + 1]
       /\ UNCHANGED version_ids

SlabDecrementRc(t, idx) ==
    \/ SlabOutOfRange(t, "decrement_rc", idx)
    \/ /\ InRange(idx)
       /\ ref_counts[idx] > -MaxUnderflow
       /\ ref_counts' = decrement_rc(ref_counts, idx)
       /\ slabOp' = [thread |-> t, op |-> "decrement_rc", idx |-> idx,
                        seen |-> ref_counts[idx],
                        panicked |-> decrement_rc_panics(ref_counts, idx)]
       /\ rc_returned' = IF decrement_rc_panics(ref_counts, idx) THEN rc_returned
                         ELSE [rc_returned EXCEPT ![idx] = @ - 1]
       /\ UNCHANGED version_ids

SlabExplicitRelease(t, idx) ==
    \/ SlabOutOfRange(t, "explicit_release", idx)
    \/ /\ InRange(idx)
       /\ slabOp' = [thread |-> t, op |-> "explicit_release", idx |-> idx,
                        seen |-> ref_counts[idx],
                        panicked |-> explicit_release_panics(ref_counts, idx)]
       /\ UNCHANGED <<ref_counts, version_ids, rc_returned>>

SlabIsInFlight(t, idx) ==
    \/ SlabOutOfRange(t, "is_in_flight", idx)
    \/ /\ InRange(idx)
       /\ slabOp' = [thread |-> t, op |-> "is_in_flight", idx |-> idx,
                        seen |-> IF is_in_flight(ref_counts, idx) THEN 1 ELSE 0,
                        panicked |-> FALSE]
       /\ UNCHANGED <<ref_counts, version_ids, rc_returned>>

----------------------------------------------------------------------------
(* Tries handed to the engine, built with the trie's own operations *)

RECURSIVE ObserveN(_, _, _, _)
ObserveN(trie, context, next_bit, n) ==
    IF n = 0 THEN trie ELSE ObserveN(observe(trie, context, next_bit), context, next_bit, n - 1)

\* ResourceRegistry::route : warm the path, then bind handle and version
route(trie, path, payload_handle, version_id) ==
    associate_payload(warm(trie, path), path, payload_handle, version_id)

CtxA == <<1>>
CtxB == <<2>>
Contexts == {CtxA, CtxB}

\* CtxA resolves to slot 1 at version 0; no observation yet
RouteTrie == route(NewTrie, CtxA, 1, 0)
\* CtxA: weights [1, 6], p(true) = 6/7 > 0.85; resolves to slot 1 at version 1
HotTrie == associate_payload(ObserveN(observe(NewTrie, CtxA, FALSE), CtxA, TRUE, 6), CtxA, 1, 1)
\* CtxA: weights [1, 1], neither side above the threshold; CtxB: weights [1, 0], p(false) = 1
ColdTrie == observe(observe(observe(NewTrie, CtxA, FALSE), CtxA, TRUE), CtxB, FALSE)

TrieChoices == {HotTrie, ColdTrie}

\* a peer's copy of the same trie, one sequence number later, merged into it:
\* every weight doubles
Doubled(trie) == merge_newer(trie, [trie EXCEPT !.sequence_number = @ + 1]).trie

\* n observations of next_bit at context in a new trie, the bulk of them by merges
RECURSIVE Grown(_, _, _)
Grown(context, next_bit, n) ==
    IF n = 0 THEN NewTrie
    ELSE IF n % 2 = 1 THEN observe(Grown(context, next_bit, n - 1), context, next_bit)
    ELSE Doubled(Grown(context, next_bit, n \div 2))

\* CtxA: weights [0, 254], one observation of true away from the cap
NearFullTrie == Grown(CtxA, TRUE, 254)

----------------------------------------------------------------------------
(* Session (crates/httpx-core/src/session.rs) as sequential calls *)

InitialCredit == 10    \* Session::new : AtomicUsize::new(10)

has_credit_MoreThanOne(credit) == credit # 0 /\ credit # 1
has_credit(credit) == credit # 0

is_canceled_Never(flag) == FALSE
is_canceled(flag) == flag

\* consume_credit without a concurrent writer: [ok, credit']
consume_credit(credit) ==
    IF credit = 0 THEN [ok |-> FALSE, credit |-> credit]
    ELSE [ok |-> TRUE, credit |-> credit - 1]

----------------------------------------------------------------------------
(* Predictive Engine (crates/httpx-core/src/engine.rs) *)

MaxTries == 3          \* allocations of tries over a run (construction included)

EngineThreads == {"t1", "t2"}

ThresholdNum == 85     \* threshold: 0.85
ThresholdDen == 100

\* p > self.threshold
AboveThreshold(p) == p.num * ThresholdDen > ThresholdNum * p.den

\* the decision of fire_push_if_likely from the two probabilities
\* (<<>> is None, <<b>> is Some(b))
Decision_Always(p_true, p_false) == <<TRUE>>
Decision(p_true, p_false) ==
    IF AboveThreshold(p_true) THEN <<TRUE>>
    ELSE IF AboveThreshold(p_false) THEN <<FALSE>>
    ELSE <<>>

\* threads that hold an epoch guard (between epoch::pin() and the guard's drop)
PinnedPcs == {"loaded", "ptrue", "decided", "cas", "training"}
Pinned(t) == epc[t] \in PinnedPcs /\ eloc[t].call \in {"fire", "predict", "train"}

\* swap_weights: allocate the new trie, swap the pointer, defer the
\* destruction of the old one until the threads pinned now have unpinned
SwapHeap(new_trie) == Append(tries, [live |-> TRUE, trie |-> new_trie])
SwapGarbage_NoWait(self) == garbage \cup {[ptr |-> trie_ptr, waiting |-> {}]}
SwapGarbage(self) ==
    garbage \cup {[ptr |-> trie_ptr, waiting |-> {t \in EngineThreads \ {self} : Pinned(t)}]}

swap_weights(self, new_trie) ==
    /\ Len(tries) < MaxTries
    /\ tries' = SwapHeap(new_trie)
    /\ trie_ptr' = Len(tries) + 1
    /\ garbage' = SwapGarbage(self)
    /\ published' = Append(published, new_trie)

\* dropping a guard: the thread no longer delays any deferred destruction
Unpin(g, t) == {[x EXCEPT !.waiting = @ \ {t}] : x \in g}

\* the collector runs a deferred destruction once nobody it waits for is pinned
Reclaim ==
    \E g \in garbage :
        /\ g.waiting = {}
        /\ tries' = [tries EXCEPT ![g.ptr].live = FALSE]
        /\ garbage' = garbage \ {g}
        /\ UNCHANGED <<active, trie_ptr, published>>

\* line 113: node.payload_handle > 0
HasPayload_Any(node) == TRUE
HasPayload(node) == node.payload_handle # 0

\* predict_for_path as one sequential call on a session nobody else touches:
\* [some, handle, version, credit']
predict_for_path(act, credit, cancel, trie, path) ==
    LET none == [some |-> FALSE, handle |-> 0, version |-> 0, credit |-> credit]
        node == get_node_at_path(trie, path)
    IN  IF ~act THEN none
        ELSE IF ~has_credit(credit) \/ is_canceled(cancel) THEN none
        ELSE IF node = <<>> THEN none
        ELSE IF HasPayload(node[1]) /\ consume_credit(credit).ok
             THEN [some |-> TRUE, handle |-> node[1].payload_handle,
                   version |-> node[1].version_id, credit |-> consume_credit(credit).credit]
             ELSE none

----------------------------------------------------------------------------
(* Core Dispatcher (crates/httpx-transport/src/dispatcher.rs) *)

ControlCapacity == 2   \* capacity of a worker's control channel (mpsc::channel(100), scaled)
EventsPerSwap == 3     \* events that trigger a swap (1000 in ClusterOrchestrator::run, scaled)
SwapInterval == 2      \* Duration::from_millis(100), in ticks of 50 ms
MaxLearn == ControlCapacity + 1    \* learning events the model lets wait in the channel

Workers == {"w1", "w2"}
WorkerOrder == <<"w1", "w2">>      \* worker_txs, in the order start() pushed them
ThisWorker == "w1"                 \* the worker whose dispatcher and engine are modelled in full

SwapTrie(trie) == [kind |-> "SwapTrie", trie |-> trie]

OrchSelect == [pc |-> "select", to |-> 0, snapshot |-> <<>>]

\* HttpxServer::start: channels, one clone of the server's trie per worker,
\* and ClusterOrchestrator::new
OrchInit(trie) ==
    /\ learn_q = <<>>
    /\ control_q = [w \in Workers |-> <<>>]
    /\ installed = [w \in Workers |-> trie]
    /\ server_trie = trie
    /\ shadow_trie = NewTrie
    /\ events_since_swap = 0
    /\ elapsed = 0
    /\ opc = OrchSelect

RingEntries == 2       \* capacity of the submission queue (IoUring::builder().build(n))
MaxPushes == 2         \* speculative pushes counted per peer after its Pivot
Addrs == {"p1"}
DispTries == {RouteTrie, HotTrie}
Versions == 0 .. MaxVersion

\* user_data = (payload + 1) | ((template + 1) << 32), kept as its two 32-bit halves
EncodeUserData(payload_handle, template_handle) ==
    [lo |-> payload_handle + 1, hi |-> template_handle + 1]
UserDataSet == [lo : 1 .. NumSlots, hi : 1 .. NumSlots]

RECURSIVE CountIn(_, _)
CountIn(q, u) ==
    IF q = <<>> THEN 0
    ELSE (IF Head(q) = u THEN 1 ELSE 0) + CountIn(Tail(q), u)

\* submissions pushed and not yet reaped that carry user_data u
Unreaped(u) == CountIn(sq, u) + kernel[u] + CountIn(cq, u)

RECURSIVE SumOver(_, _)
SumOver(S, f) ==
    IF S = {} THEN 0
    ELSE LET x == CHOOSE y \in S : TRUE IN f[x] + SumOver(S \ {x}, f)

\* unreaped submissions that reference slot i as payload, plus those that
\* reference it as template
InFlightRefs(i) ==
    SumOver(UserDataSet,
            [u \in UserDataSet |->
                Unreaped(u) * ((IF u.lo = i + 1 THEN 1 ELSE 0) + (IF u.hi = i + 1 THEN 1 ELSE 0))])

\* reap_completions, lines 127-128 and 133: the handles read back from a tag
DecodePayload_Raw(u) == u.lo
DecodePayload(u) == u.lo - 1
DecodeTemplate(u) == u.hi - 1

\* reap_completions: drain the completion queue, decrementing per entry;
\* a decrement on a zero count panics after its store and ends the drain
RECURSIVE ReapFrom(_, _)
ReapFrom(rc, q) ==
    IF q = <<>> THEN [rc |-> rc, rest |-> <<>>, panicked |-> FALSE]
    ELSE LET u == Head(q)
             payload_handle == DecodePayload(u)
             template_handle == DecodeTemplate(u)
             rc1 == decrement_rc(rc, payload_handle)
             rc2 == IF u.hi # 0 THEN decrement_rc(rc1, template_handle) ELSE rc1
         IN  IF u.lo = 0 /\ u.hi = 0 THEN ReapFrom(rc, Tail(q))
             ELSE IF decrement_rc_panics(rc, payload_handle)
                  THEN [rc |-> rc1, rest |-> Tail(q), panicked |-> TRUE]
             ELSE IF u.hi # 0 /\ decrement_rc_panics(rc1, template_handle)
                  THEN [rc |-> rc2, rest |-> Tail(q), panicked |-> TRUE]
             ELSE ReapFrom(rc2, Tail(q))

NoCall == [payload |-> 0, template |-> 0, expected |-> 0, current_version |-> 0,
           addr |-> "none", speculative |-> FALSE]

\* sent: while counting, the speculative pushes submitted to each peer
NotSending == [counting |-> FALSE, to |-> [a \in Addrs |-> 0]]
CountingSent == [counting |-> TRUE, to |-> [a \in Addrs |-> 0]]
CountSent(addr) ==
    IF sent.counting THEN [sent EXCEPT !.to[addr] = @ + 1] ELSE sent

RingInit ==
    /\ sq = <<>>
    /\ kernel = [u \in UserDataSet |-> 0]
    /\ cq = <<>>

DispInit ==
    /\ dpc = "idle"
    /\ dloc = NoCall
    /\ dres = "none"
    /\ pivoted = {}
    /\ pushes = [a \in Addrs |-> 0]
    /\ sent = NotSending
    /\ killed = FALSE

\* line 149: current_version != expected_version
IsStale_Older(current_version, expected_version) == current_version < expected_version
IsStale(current_version, expected_version) == current_version # expected_version

\* submit_linked_burst, lines 148-151: the freshness gate; dloc keeps the
\* arguments and the version that was read, also for a rejected call
Gate(payload_handle, template_handle, expected_version, addr, speculative) ==
    IF ~InRange(payload_handle)
    THEN /\ dpc' = "panicked"
         /\ dres' = "panic"
         /\ dloc' = NoCall
    ELSE LET call == [payload |-> payload_handle, template |-> template_handle,
                      expected |-> expected_version,
                      current_version |-> get_version(version_ids, payload_handle),
                      addr |-> addr, speculative |-> speculative]
         IN  /\ dloc' = call
             /\ IF IsStale(call.current_version, expected_version)
                THEN /\ dpc' = "idle"
                     /\ dres' = "stale"
                ELSE /\ dpc' = "gated"
                     /\ dres' = "none"

SubmitGate(payload_handle, template_handle, expected_version) ==
    /\ dpc = "idle"
    /\ Gate(payload_handle, template_handle, expected_version, "none", FALSE)
    /\ UNCHANGED <<slabVars, ringVars, pivoted, pushes, sent, killed, orchVars, libVars, engineVars, sessVars, threadVars>>

\* the counts after lines 175-176
AfterIncrements_TemplateOnly(rc, payload_handle, template_handle) ==
    increment_rc(rc, template_handle)
AfterIncrements(rc, payload_handle, template_handle) ==
    increment_rc(increment_rc(rc, payload_handle), template_handle)

\* the result of a push that found the submission queue full (lines 180-183)
SqFullRc(rc, payload_handle, template_handle) ==
    AfterIncrements(rc, payload_handle, template_handle)

CountPush(addr) ==
    [pushes EXCEPT ![addr] = @ + (IF addr \in pivoted THEN 1 ELSE 0)]

\* submit_linked_burst, lines 153-187: prepare, increment both counts, push,
\* kick the ring.  ring.submit() hands the queue to the kernel, unless it
\* fails (its result is dropped) or the kernel polls the queue on its own
SubmitCommit ==
    /\ dpc = "gated"
    /\ IF ~InRange(dloc.template)
       THEN /\ dpc' = "panicked"
            /\ dres' = "panic"
            /\ UNCHANGED <<ref_counts, sq, kernel, pushes, sent>>
       ELSE /\ \A i \in Slots : AfterIncrements(ref_counts, dloc.payload, dloc.template)[i] <= MaxRc
            /\ dpc' = "idle"
            /\ IF Len(sq) >= RingEntries
               THEN /\ ref_counts' = SqFullRc(ref_counts, dloc.payload, dloc.template)
                    /\ dres' = "sqfull"
                    /\ UNCHANGED <<sq, kernel, pushes, sent>>
               ELSE /\ ref_counts' = AfterIncrements(ref_counts, dloc.payload, dloc.template)
                    /\ dres' = "ok"
                    /\ pushes' = IF dloc.speculative THEN CountPush(dloc.addr) ELSE pushes
                    /\ sent' = IF dloc.speculative THEN CountSent(dloc.addr) ELSE sent
                    /\ LET pushed == Append(sq, EncodeUserData(dloc.payload, dloc.template))
                       IN  \/ /\ sq' = pushed
                              /\ UNCHANGED kernel
                           \/ /\ sq' = <<>>
                              /\ kernel' = [u \in UserDataSet |-> kernel[u] + CountIn(pushed, u)]
    /\ UNCHANGED dloc
    /\ UNCHANGED <<version_ids, slabOp, rc_returned, cq, pivoted, killed, orchVars, libVars, engineVars, sessVars, threadVars>>

\* the kernel's poll thread (or a later io_uring_enter) takes the oldest entry
KernelConsume ==
    /\ sq # <<>>
    /\ kernel' = [kernel EXCEPT ![Head(sq)] = @ + 1]
    /\ sq' = Tail(sq)
    /\ UNCHANGED <<cq, slabVars, dispVars, orchVars, libVars, engineVars, sessVars, threadVars>>

\* the kernel finishes a send and posts its completion; any order
KernelComplete(u) ==
    /\ kernel[u] > 0
    /\ kernel' = [kernel EXCEPT ![u] = @ - 1]
    /\ cq' = Append(cq, u)
    /\ UNCHANGED <<sq, slabVars, dispVars, orchVars, libVars, engineVars, sessVars, threadVars>>

ReapCompletions ==
    /\ dpc = "idle"
    /\ LET r == ReapFrom(ref_counts, cq)
       IN  /\ ref_counts' = r.rc
           /\ cq' = r.rest
           /\ dpc' = IF r.panicked THEN "panicked" ELSE "idle"
    /\ UNCHANGED <<version_ids, slabOp, rc_returned, sq, kernel, dloc, dres, pivoted, pushes, sent, killed, orchVars, libVars,
                   engineVars, sessVars, threadVars>>

\* on_packet: a fresh Session per datagram, predict_for_path, then the egress
\* path with template 0 and the node's version; its result is dropped
EmitLearn(q, data) == Append(q, <<data, TRUE>>)

OnPacket(data, addr) ==
    /\ dpc = "idle"
    /\ pushes[addr] < MaxPushes
    /\ Len(learn_q) < MaxLearn
    /\ learn_q' = EmitLearn(learn_q, data)
    /\ LET r == predict_for_path(active, InitialCredit, FALSE, tries[trie_ptr].trie, data)
       IN  IF r.some
           THEN Gate(r.handle, 0, r.version, addr, TRUE)
           ELSE /\ dres' = "none"
                /\ UNCHANGED <<dpc, dloc>>
    /\ UNCHANGED <<slabVars, ringVars, pivoted, pushes, sent, killed, engineVars, sessVars, threadVars>>
    /\ UNCHANGED <<control_q, installed, server_trie, shadow_trie, events_since_swap, elapsed, opc>>
    /\ UNCHANGED libVars

\* cancel_for: a log line
cancel_for(addr) == UNCHANGED <<engineVars, sessVars>>

\* handle_control
HandlePivot(addr) ==
    /\ dpc = "idle"
    /\ cancel_for(addr)
    /\ pivoted' = pivoted \cup {addr}
    /\ UNCHANGED <<slabVars, ringVars, dpc, dloc, dres, pushes, sent, killed, orchVars, libVars, threadVars>>

HandleKillAll ==
    /\ dpc = "idle"
    /\ killed' = TRUE
    /\ UNCHANGED <<slabVars, ringVars, dpc, dloc, dres, pivoted, pushes, sent, orchVars, libVars,
                   engineVars, sessVars, threadVars>>

HandleSwapTrie(new_trie) ==
    /\ dpc = "idle"
    /\ swap_weights("worker", new_trie)
    /\ installed' = [installed EXCEPT ![ThisWorker] = new_trie]
    /\ UNCHANGED <<active, slabVars, ringVars, dispVars, sessVars, threadVars>>
    /\ UNCHANGED <<learn_q, control_q, server_trie, shadow_trie, events_since_swap, elapsed, opc>>
    /\ UNCHANGED libVars

\* the slab is shared: its owner may commit a new version at any time
SetVersion(idx, version) ==
    /\ InRange(idx)
    /\ version_ids[idx] # version
    /\ version_ids' = set_version(version_ids, idx, version)
    /\ UNCHANGED <<ref_counts, slabOp, rc_returned, ringVars, dispVars, orchVars, libVars, engineVars, sessVars, threadVars>>

----------------------------------------------------------------------------
(* Engine and Session under concurrent callers: every shared load, store and *)
(* compare-exchange is one step                                              *)

MaxCalls == 12         \* fire_push_if_likely calls counted by the depletion history
MaxTrained == 2        \* train is not called once it has added this many observations to the installed trie

None == <<>>

\* what a read of a reclaimed trie may return
GarbageProbs == {[num |-> 0, den |-> 1], [num |-> 1, den |-> 1]}

IdleLoc == [call |-> "none", ctx |-> <<>>, ptr |-> 0, p_true |-> [num |-> 0, den |-> 1],
            decision |-> None, current |-> 0, sealed |-> FALSE, consumed |-> FALSE,
            ret |-> None, before |-> <<>>]

\* hist.pure: so far the session has only served fire_push_if_likely calls
\* whose context was above the threshold, on an active engine, with no
\* cancel and no replenish; calls / somes count those calls and their Some results
NoHist == [pure |-> TRUE, calls |-> 0, somes |-> 0]
Impure == [pure |-> FALSE, calls |-> 0, somes |-> 0]

\* grants: while counting, the credit the session had when the count began
\* (start), the consume_credit calls that have returned since (calls) and
\* those of them that returned true (granted); a replenish ends the count
NotCounting == [counting |-> FALSE, start |-> 0, calls |-> 0, granted |-> 0]
CountingFrom(credit) == [counting |-> TRUE, start |-> credit, calls |-> 0, granted |-> 0]
Counted(was_granted) ==
    IF grants.counting
    THEN [grants EXCEPT !.calls = @ + 1, !.granted = @ + (IF was_granted THEN 1 ELSE 0)]
    ELSE grants

SessInit ==
    /\ iiw_credit = InitialCredit
    /\ canceled = FALSE
    /\ mode \in {"ClusterIntegrated", "SovereignAutonomous"}

ThreadInit ==
    /\ epc = [t \in EngineThreads |-> "idle"]
    /\ eloc = [t \in EngineThreads |-> IdleLoc]
    /\ hist = NoHist
    /\ grants = NotCounting

\* PredictiveEngine::new(act)
EngineNew(act) ==
    /\ active = act
    /\ tries = <<[live |-> TRUE, trie |-> NewTrie]>>
    /\ trie_ptr = 1
    /\ garbage = {}
    /\ published = <<NewTrie>>

\* PredictiveEngine::new(act) followed by swap_weights(trie)
EngineInstalled(act, trie) ==
    /\ active = act
    /\ tries = <<[live |-> TRUE, trie |-> NewTrie], [live |-> TRUE, trie |-> trie]>>
    /\ trie_ptr = 2
    /\ garbage = {[ptr |-> 1, waiting |-> {}]}
    /\ published = <<NewTrie, trie>>

\* the end of a call: the guard (if any) is dropped and the result returned
Return(t, value, used) ==
    /\ epc' = [epc EXCEPT ![t] = "idle"]
    /\ eloc' = [eloc EXCEPT ![t] = [IdleLoc EXCEPT !.call = eloc[t].call,
                                                   !.sealed = eloc[t].sealed,
                                                   !.consumed = used,
                                                   !.ret = value]]
    /\ garbage' = IF Pinned(t) THEN Unpin(garbage, t) ELSE garbage

\* the history after a fire_push_if_likely call returned
FireReturned(is_some, was_low) ==
    IF hist.pure /\ ~was_low
    THEN [hist EXCEPT !.calls = @ + 1, !.somes = @ + (IF is_some THEN 1 ELSE 0)]
    ELSE Impure

HistAfter(t, is_some, was_low) ==
    IF eloc[t].call = "fire" THEN FireReturned(is_some, was_low) ELSE hist

\* line 60 / 105 and the has_credit() load of line 63 / 106
CallStart(t, call, ctx) ==
    /\ epc[t] = "idle"
    /\ call = "fire" => hist.calls < MaxCalls
    /\ LET loc == [IdleLoc EXCEPT !.call = call, !.ctx = ctx, !.sealed = canceled]
           h == IF call = "fire" /\ active THEN hist ELSE Impure
       IN  IF ~active \/ ~has_credit(iiw_credit)
           THEN /\ epc' = epc
                /\ eloc' = [eloc EXCEPT ![t] = [loc EXCEPT !.ctx = <<>>]]
                /\ hist' = IF call = "fire" /\ h.pure
                           THEN [h EXCEPT !.calls = @ + 1] ELSE h
           ELSE /\ epc' = [epc EXCEPT ![t] = "credit_ok"]
                /\ eloc' = [eloc EXCEPT ![t] = loc]
                /\ hist' = h
    /\ UNCHANGED <<grants, engineVars, sessVars, slabVars, ringVars, dispVars, orchVars, libVars>>

fire_push_if_likely(t, ctx) == CallStart(t, "fire", ctx)
predict_for_path_begin(t, path) == CallStart(t, "predict", path)

\* the is_canceled() load of line 63 / 106
CheckCanceled(t) ==
    /\ epc[t] = "credit_ok"
    /\ IF is_canceled(canceled)
       THEN /\ Return(t, None, FALSE)
            /\ hist' = HistAfter(t, FALSE, FALSE)
       ELSE /\ epc' = [epc EXCEPT ![t] = "not_canceled"]
            /\ UNCHANGED <<eloc, garbage, hist>>
    /\ UNCHANGED <<grants, active, tries, trie_ptr, published, sessVars, slabVars, ringVars, dispVars, orchVars, libVars>>

\* epoch::pin() and the Acquire load of the trie pointer (lines 72-79 / 108-110)
LoadTrie(t) ==
    /\ epc[t] = "not_canceled"
    /\ epc' = [epc EXCEPT ![t] = "loaded"]
    /\ eloc' = [eloc EXCEPT ![t].ptr = trie_ptr]
    /\ UNCHANGED <<hist, grants, engineVars, sessVars, slabVars, ringVars, dispVars, orchVars, libVars>>

\* what a reader gets from the trie it holds
ReadProbability(ptr, ctx, bit) ==
    IF tries[ptr].live THEN {get_probability(tries[ptr].trie, ctx, bit)} ELSE GarbageProbs

\* line 82
ReadPTrue(t) ==
    /\ epc[t] = "loaded"
    /\ eloc[t].call = "fire"
    /\ \E p \in ReadProbability(eloc[t].ptr, eloc[t].ctx, TRUE) :
           eloc' = [eloc EXCEPT ![t].p_true = p]
    /\ epc' = [epc EXCEPT ![t] = "ptrue"]
    /\ UNCHANGED <<hist, grants, engineVars, sessVars, slabVars, ringVars, dispVars, orchVars, libVars>>

\* lines 83-93: the second probability and the decision
ReadPFalse(t) ==
    /\ epc[t] = "ptrue"
    /\ \E p \in ReadProbability(eloc[t].ptr, eloc[t].ctx, FALSE) :
         LET d == Decision(eloc[t].p_true, p)
         IN  IF d = None
             THEN /\ Return(t, None, FALSE)
                  /\ hist' = HistAfter(t, FALSE, TRUE)
             ELSE /\ epc' = [epc EXCEPT ![t] = "decided"]
                  /\ eloc' = [eloc EXCEPT ![t].decision = d]
                  /\ UNCHANGED <<garbage, hist>>
    /\ UNCHANGED <<grants, active, tries, trie_ptr, published, sessVars, slabVars, ringVars, dispVars, orchVars, libVars>>

\* lines 112-113: the terminal node and its payload handle
ReadNode(t) ==
    /\ epc[t] = "loaded"
    /\ eloc[t].call = "predict"
    /\ LET node == IF tries[eloc[t].ptr].live
                   THEN get_node_at_path(tries[eloc[t].ptr].trie, eloc[t].ctx)
                   ELSE None
       IN  IF node = None \/ ~HasPayload(node[1])
           THEN /\ Return(t, None, FALSE)
                /\ UNCHANGED hist
           ELSE /\ epc' = [epc EXCEPT ![t] = "decided"]
                /\ eloc' = [eloc EXCEPT ![t].decision =
                                <<node[1].payload_handle, node[1].version_id>>]
                /\ UNCHANGED <<garbage, hist>>
    /\ UNCHANGED <<grants, active, tries, trie_ptr, published, sessVars, slabVars, ringVars, dispVars, orchVars, libVars>>

\* Session::consume_credit called directly
consume_credit_begin(t) ==
    /\ epc[t] = "idle"
    /\ epc' = [epc EXCEPT ![t] = "decided"]
    /\ eloc' = [eloc EXCEPT ![t] = [IdleLoc EXCEPT !.call = "consume", !.decision = <<TRUE>>]]
    /\ hist' = Impure
    /\ UNCHANGED <<grants, engineVars, sessVars, slabVars, ringVars, dispVars, orchVars, libVars>>

\* consume_credit, lines 51-54: load the credit; zero ends the call
CreditIsZero_Never(current) == FALSE
CreditIsZero(current) == current = 0

ConsumeLoad(t) ==
    /\ epc[t] = "decided"
    /\ IF CreditIsZero(iiw_credit)
       THEN /\ Return(t, IF eloc[t].call = "consume" THEN <<FALSE>> ELSE None, FALSE)
            /\ hist' = HistAfter(t, FALSE, FALSE)
            /\ grants' = Counted(FALSE)
       ELSE /\ epc' = [epc EXCEPT ![t] = "cas"]
            /\ eloc' = [eloc EXCEPT ![t].current = iiw_credit]
            /\ UNCHANGED <<garbage, hist, grants>>
    /\ UNCHANGED <<active, tries, trie_ptr, published, sessVars, slabVars, ringVars, dispVars, orchVars, libVars>>

\* consume_credit, lines 55-62: compare_exchange(current, current - 1)
CasSucceeds_Always(value, current) == TRUE
CasSucceeds(value, current) == value = current

ConsumeCas(t) ==
    /\ epc[t] = "cas"
    /\ IF CasSucceeds(iiw_credit, eloc[t].current)
       THEN /\ iiw_credit' = eloc[t].current - 1
            /\ Return(t, eloc[t].decision, TRUE)
            /\ hist' = HistAfter(t, TRUE, FALSE)
            /\ grants' = Counted(TRUE)
       ELSE /\ epc' = [epc EXCEPT ![t] = "decided"]
            /\ UNCHANGED <<iiw_credit, eloc, garbage, hist, grants>>
    /\ UNCHANGED <<active, tries, trie_ptr, published, canceled, mode, slabVars, ringVars, dispVars, orchVars, libVars>>

\* Session::cancel, reset_pivot, replenish_credits, has_credit: one atomic access each
Cancel(t) ==
    /\ epc[t] = "idle"
    /\ canceled' = TRUE
    /\ eloc' = [eloc EXCEPT ![t] = [IdleLoc EXCEPT !.call = "cancel"]]
    /\ hist' = Impure
    /\ UNCHANGED <<grants, iiw_credit, mode, epc, engineVars, slabVars, ringVars, dispVars, orchVars, libVars>>

ResetPivot(t) ==
    /\ epc[t] = "idle"
    /\ canceled' = FALSE
    /\ eloc' = [u \in EngineThreads |->
                  IF u = t THEN [IdleLoc EXCEPT !.call = "reset_pivot"]
                  ELSE [eloc[u] EXCEPT !.sealed = FALSE]]
    /\ UNCHANGED <<hist, grants, iiw_credit, mode, epc, engineVars, slabVars, ringVars, dispVars, orchVars, libVars>>

ReplenishCredits(t) ==
    /\ epc[t] = "idle"
    /\ iiw_credit' = InitialCredit
    /\ eloc' = [eloc EXCEPT ![t] = [IdleLoc EXCEPT !.call = "replenish_credits"]]
    /\ hist' = Impure
    /\ grants' = NotCounting
    /\ UNCHANGED <<canceled, mode, epc, engineVars, slabVars, ringVars, dispVars, orchVars, libVars>>

HasCredit(t) ==
    /\ epc[t] = "idle"
    /\ eloc' = [eloc EXCEPT ![t] = [IdleLoc EXCEPT !.call = "has_credit",
                                                   !.ret = <<has_credit(iiw_credit)>>]]
    /\ UNCHANGED <<hist, grants, sessVars, epc, engineVars, slabVars, ringVars, dispVars, orchVars, libVars>>

\* swap_weights called by the thread that installs tries
SwapWeights(new_trie) ==
    /\ swap_weights("writer", new_trie)
    /\ UNCHANGED <<active, hist, grants, epc, eloc, sessVars, slabVars, ringVars, dispVars, orchVars, libVars>>

\* cancel_for called by a thread that holds the engine
CancelFor(t, addr) ==
    /\ epc[t] = "idle"
    /\ cancel_for(addr)
    /\ eloc' = [eloc EXCEPT ![t] = [IdleLoc EXCEPT !.call = "cancel_for"]]
    /\ UNCHANGED <<hist, grants, epc, slabVars, ringVars, dispVars, orchVars, libVars>>

RECURSIVE WeightSum(_)
WeightSum(nodes) ==
    IF nodes = <<>> THEN 0
    ELSE Head(nodes).weights[1] + Head(nodes).weights[2] + WeightSum(Tail(nodes))

\* lines 140-144
Multiplier_One(session_mode) == 1
Multiplier(session_mode) == IF session_mode = "SovereignAutonomous" THEN 2 ELSE 1

\* observations added to a trie since it was installed
Trained(ptr) == WeightSum(tries[ptr].trie.nodes) - WeightSum(published[ptr].nodes)

\* train, lines 127-146: pin, load the pointer, pick the multiplier
\* (eloc.before is a ghost: the trie as the call found it)
TrainBegin(t, ctx, bit) ==
    /\ epc[t] = "idle"
    /\ Trained(trie_ptr) < MaxTrained
    /\ IF ~active
       THEN /\ eloc' = [eloc EXCEPT ![t] = [IdleLoc EXCEPT !.call = "train"]]
            /\ UNCHANGED epc
       ELSE /\ epc' = [epc EXCEPT ![t] = "training"]
            /\ eloc' = [eloc EXCEPT ![t] =
                          [IdleLoc EXCEPT !.call = "train", !.ctx = ctx, !.ptr = trie_ptr,
                                          !.decision = <<bit>>,
                                          !.current = Multiplier(mode),
                                          !.before = <<tries[trie_ptr].trie>>]]
    /\ UNCHANGED <<hist, grants, engineVars, sessVars, slabVars, ringVars, dispVars, orchVars, libVars>>

\* train, lines 146-152: one pass of the loop, observe on the loaded trie itself
TrainObserve(t) ==
    /\ epc[t] = "training"
    /\ tries' = [tries EXCEPT ![eloc[t].ptr].trie = observe(@, eloc[t].ctx, eloc[t].decision[1])]
    /\ IF eloc[t].current = 1
       THEN Return(t, None, FALSE)
       ELSE /\ eloc' = [eloc EXCEPT ![t].current = @ - 1]
            /\ UNCHANGED <<epc, garbage>>
    /\ UNCHANGED <<hist, grants, active, trie_ptr, published, sessVars, slabVars, ringVars, dispVars, orchVars, libVars>>

----------------------------------------------------------------------------
(* Cluster Orchestrator (crates/httpx-cluster/src/orchestrator.rs) and the  *)
(* channels that HttpxServer::start wires between it and the workers        *)

MaxEvents == 4         \* learning events emitted over a run

ServerTries == {NewTrie, RouteTrie}    \* HttpxServer.trie: none given, or the registry's trie

notWorker == <<slabVars, ringVars, dispVars, engineVars, sessVars, threadVars, libVars>>

\* on_packet of a worker, line 195: the send on the unbounded learning channel
\* (the rest of on_packet works on that worker's own ring and engine)
WorkerEmit(data) ==
    /\ Len(learn_q) < MaxLearn
    /\ WeightSum(shadow_trie.nodes) + Len(learn_q) < MaxEvents
    /\ learn_q' = EmitLearn(learn_q, data)
    /\ UNCHANGED <<control_q, installed, server_trie, shadow_trie, events_since_swap, elapsed, opc>>
    /\ UNCHANGED notWorker

\* run_loop / handle_control of a worker: take one signal from its control channel
WorkerControl(w) ==
    /\ control_q[w] # <<>>
    /\ LET signal == Head(control_q[w])
       IN  installed' = IF signal.kind = "SwapTrie"
                        THEN [installed EXCEPT ![w] = signal.trie]
                        ELSE installed
    /\ control_q' = [control_q EXCEPT ![w] = Tail(@)]
    /\ UNCHANGED <<learn_q, server_trie, shadow_trie, events_since_swap, elapsed, opc>>
    /\ UNCHANGED notWorker

\* line 68
ReachedEventCount_Late(count) == count > EventsPerSwap
ReachedEventCount(count) == count >= EventsPerSwap

\* line 74
TickerDue(count, age) == count > 0 /\ age >= SwapInterval

\* trigger_global_swap, lines 83-91: bump the sequence number, clone
BumpSequence_Keep(trie) == trie
BumpSequence(trie) == [trie EXCEPT !.sequence_number = @ + 1]
Sending(snapshot) == [pc |-> "sending", to |-> 1, snapshot |-> snapshot]

\* run, lines 63-71: one learning event
OrchLearn ==
    /\ opc.pc = "select"
    /\ learn_q # <<>>
    /\ LET event == Head(learn_q)
           observed == observe(shadow_trie, event[1], event[2])
           count == events_since_swap + 1
       IN  /\ learn_q' = Tail(learn_q)
           /\ events_since_swap' = count
           /\ IF ReachedEventCount(count)
              THEN /\ shadow_trie' = BumpSequence(observed)
                   /\ opc' = Sending(BumpSequence(observed))
              ELSE /\ shadow_trie' = observed
                   /\ UNCHANGED opc
    /\ UNCHANGED <<control_q, installed, server_trie, elapsed>>
    /\ UNCHANGED notWorker

\* run, lines 72-77: the ticker fires
OrchTick ==
    /\ opc.pc = "select"
    /\ IF TickerDue(events_since_swap, elapsed)
       THEN /\ shadow_trie' = BumpSequence(shadow_trie)
            /\ opc' = Sending(BumpSequence(shadow_trie))
       ELSE UNCHANGED <<shadow_trie, opc>>
    /\ UNCHANGED <<learn_q, control_q, installed, server_trie, events_since_swap, elapsed>>
    /\ UNCHANGED notWorker

\* trigger_global_swap, line 95: tx.send(..).await on the next worker's
\* channel completes once the channel has room; after the last worker,
\* lines 105-106
OrchSend ==
    /\ opc.pc = "sending"
    /\ LET w == WorkerOrder[opc.to]
       IN  /\ Len(control_q[w]) < ControlCapacity
           /\ control_q' = [control_q EXCEPT ![w] = Append(@, SwapTrie(opc.snapshot))]
    /\ IF opc.to = Len(WorkerOrder)
       THEN /\ opc' = OrchSelect
            /\ events_since_swap' = 0
            /\ elapsed' = 0
       ELSE /\ opc' = [opc EXCEPT !.to = @ + 1]
            /\ UNCHANGED <<events_since_swap, elapsed>>
    /\ UNCHANGED <<learn_q, installed, server_trie, shadow_trie>>
    /\ UNCHANGED notWorker

\* the clock behind Instant::now() and the interval timer
TimePasses ==
    /\ elapsed < SwapInterval
    /\ elapsed' = elapsed + 1
    /\ UNCHANGED <<learn_q, control_q, installed, server_trie, shadow_trie, events_since_swap, opc>>
    /\ UNCHANGED notWorker

----------------------------------------------------------------------------
(* SecureSlab versions called directly (crates/httpx-dsa/src/slab.rs) *)

MaxIncrements == 3     \* increment_version calls on a slot between two set_version calls

U32Max == -1           \* u32::MAX in the two's complement reading
VersionArgs == {U32Max, 0, 1}      \* versions passed to set_version

\* a > b on unsigned words in the two's complement reading
UGreater(a, b) == IF (a < 0) = (b < 0) THEN a > b ELSE a < 0

VersionsIdle == ver_returned = [i \in Slots |-> <<>>]

SlabGetVersion(t, idx) ==
    /\ \/ SlabOutOfRange(t, "get_version", idx)
       \/ /\ InRange(idx)
          /\ slabOp' = [thread |-> t, op |-> "get_version", idx |-> idx,
                           seen |-> get_version(version_ids, idx), panicked |-> FALSE]
          /\ UNCHANGED <<ref_counts, version_ids, rc_returned>>
    /\ UNCHANGED <<ver_returned, ringVars, dispVars, engineVars, sessVars, threadVars, orchVars,
                   trie_self, trieOp, mon, monRun, cc, ccOp, auxVars>>

SlabSetVersion(t, idx, version) ==
    /\ \/ SlabOutOfRange(t, "set_version", idx) /\ UNCHANGED ver_returned
       \/ /\ InRange(idx)
          /\ version_ids' = set_version(version_ids, idx, version)
          /\ slabOp' = [thread |-> t, op |-> "set_version", idx |-> idx,
                           seen |-> version, panicked |-> FALSE]
          /\ ver_returned' = [ver_returned EXCEPT ![idx] = <<>>]
          /\ UNCHANGED <<ref_counts, rc_returned>>
    /\ UNCHANGED <<ringVars, dispVars, engineVars, sessVars, threadVars, orchVars,
                   trie_self, trieOp, mon, monRun, cc, ccOp, auxVars>>

\* increment_version: fetch_add(1) wraps on the word and stores; the "+ 1" on
\* the value it returned overflows when that value is u32::MAX, which panics
\* in a build with overflow checks and wraps in one without
SlabIncrementVersion(t, idx) ==
    /\ \/ SlabOutOfRange(t, "increment_version", idx) /\ UNCHANGED ver_returned
       \/ /\ InRange(idx)
          /\ Len(ver_returned[idx]) < MaxIncrements
          /\ version_ids' = [version_ids EXCEPT ![idx] = @ + 1]
          /\ \E overflow_checks \in BOOLEAN :
                LET panics == overflow_checks /\ version_ids[idx] = U32Max
                IN  /\ slabOp' = [thread |-> t, op |-> "increment_version", idx |-> idx,
                                     seen |-> version_ids[idx], panicked |-> panics]
                    /\ ver_returned' = IF panics THEN ver_returned
                                       ELSE [ver_returned EXCEPT
                                                ![idx] = Append(@, version_ids[idx] + 1)]
          /\ UNCHANGED <<ref_counts, rc_returned>>
    /\ UNCHANGED <<ringVars, dispVars, engineVars, sessVars, threadVars, orchVars,
                   trie_self, trieOp, mon, monRun, cc, ccOp, auxVars>>

----------------------------------------------------------------------------
(* LinearIntentTrie called directly (crates/httpx-dsa/src/trie.rs) *)

MaxTrieOps == 3        \* calls that change the trie over a run

\* the arguments of the calls
TrieHandles == {2}
TrieVersions == {1, 2}

\* another node's trie: sequence_number is a public field its orchestrator writes
Peer(t, seq) == [t EXCEPT !.sequence_number = seq]
PeerSeqs == {0, 9}
PeerTries == {Peer(t, seq) : t \in {HotTrie, ColdTrie, NearFullTrie}, seq \in PeerSeqs}

\* the tries the calls start from
TrieStarts == {NewTrie, RouteTrie, NearFullTrie}

NoTrieOp == [op |-> "none", n |-> 0, context |-> <<>>, next_bit |-> FALSE, handle |-> 0,
             version_id |-> 0, other |-> <<>>, before |-> <<>>, ret |-> <<>>]

TrieIdle == trie_self = NewTrie /\ trieOp = NoTrieOp

TrieInit == trie_self \in TrieStarts /\ trieOp = NoTrieOp

notTrie == <<slabVars, ringVars, dispVars, engineVars, sessVars, threadVars, orchVars,
             ver_returned, mon, monRun, cc, ccOp, auxVars>>

\* a call that may change the trie: what trieOp keeps of it
Changing(name) == [NoTrieOp EXCEPT !.op = name, !.n = trieOp.n + 1, !.before = <<trie_self>>]
\* a call that only reads
Reading(name) == [NoTrieOp EXCEPT !.op = name, !.n = trieOp.n, !.before = <<trie_self>>]

TrieObserve(context, next_bit) ==
    /\ trieOp.n < MaxTrieOps
    /\ trie_self' = observe(trie_self, context, next_bit)
    /\ trieOp' = [Changing("observe") EXCEPT !.context = context, !.next_bit = next_bit]
    /\ UNCHANGED notTrie

TrieWarm(path) ==
    /\ trieOp.n < MaxTrieOps
    /\ trie_self' = warm(trie_self, path)
    /\ trieOp' = [Changing("warm") EXCEPT !.context = path]
    /\ UNCHANGED notTrie

TrieAssociatePayload(context, handle, version_id) ==
    /\ trieOp.n < MaxTrieOps
    /\ trie_self' = associate_payload(trie_self, context, handle, version_id)
    /\ trieOp' = [Changing("associate_payload") EXCEPT !.context = context, !.handle = handle,
                                                        !.version_id = version_id]
    /\ UNCHANGED notTrie

TrieMergeNewer(other) ==
    /\ trieOp.n < MaxTrieOps
    /\ trie_self' = merge_newer(trie_self, other).trie
    /\ trieOp' = [Changing("merge_newer") EXCEPT !.other = <<other>>,
                                                  !.ret = <<merge_newer(trie_self, other).ret>>]
    /\ UNCHANGED notTrie

\* get_probability(context, false) and get_probability(context, true)
TrieGetProbability(context) ==
    /\ trieOp' = [Reading("get_probability") EXCEPT
                     !.context = context,
                     !.ret = <<get_probability_f32(trie_self, context, FALSE),
                               get_probability_f32(trie_self, context, TRUE)>>]
    /\ UNCHANGED trie_self
    /\ UNCHANGED notTrie

TrieGetNodeAtPath(path) ==
    /\ trieOp' = [Reading("get_node_at_path") EXCEPT !.context = path,
                                                      !.ret = get_node_at_path(trie_self, path)]
    /\ UNCHANGED trie_self
    /\ UNCHANGED notTrie

----------------------------------------------------------------------------
(* ClusterStability (crates/httpx-cluster/src/monitor.rs) *)

MaxMisses == 4         \* record_miss is not called with consecutive_misses at MaxMisses
MaxSuccesses == 11     \* record_success is not called after this many in a row
MaxPulseAge == 2       \* clock ticks counted since last_pulse

MissThreshold == 3       \* miss_threshold
RecoveryThreshold == 10  \* recovery_threshold

\* ClusterStability::new; last_pulse is kept as the time passed since that instant
MonNew == [mode |-> "Integrated", consecutive_misses |-> 0, consecutive_stable |-> 0,
           last_pulse |-> 0]

\* monRun counts the calls of each kind made in a row, whatever the monitor
\* did with them, and remembers whether the monitor has ever been Sovereign
MonInit == mon = MonNew /\ monRun = [misses |-> 0, successes |-> 0, was_sovereign |-> FALSE]

notMon == <<slabVars, ringVars, dispVars, engineVars, sessVars, threadVars, orchVars,
            ver_returned, trie_self, trieOp, cc, ccOp, auxVars>>

transition(m, new_mode) ==
    [m EXCEPT !.mode = new_mode, !.consecutive_misses = 0, !.consecutive_stable = 0]

\* line 41
ReachedRecovery(count) == count >= RecoveryThreshold

\* line 53
ReachedMisses_Late(count) == count > MissThreshold
ReachedMisses(count) == count >= MissThreshold

record_success(m) ==
    LET pulsed == [m EXCEPT !.consecutive_misses = 0, !.last_pulse = 0]
        counted == [pulsed EXCEPT !.consecutive_stable = @ + 1]
    IN  IF m.mode = "Sovereign"
        THEN IF ReachedRecovery(counted.consecutive_stable)
             THEN transition(counted, "Integrated")
             ELSE counted
        ELSE pulsed

record_miss(m) ==
    LET counted == [m EXCEPT !.consecutive_stable = 0, !.consecutive_misses = @ + 1]
    IN  IF m.mode = "Integrated" /\ ReachedMisses(counted.consecutive_misses)
        THEN transition(counted, "Sovereign")
        ELSE counted

RecordSuccess ==
    /\ monRun.successes < MaxSuccesses
    /\ mon' = record_success(mon)
    /\ monRun' = [monRun EXCEPT !.successes = @ + 1, !.misses = 0]
    /\ UNCHANGED notMon

RecordMiss ==
    /\ mon.consecutive_misses < MaxMisses
    /\ mon' = record_miss(mon)
    /\ monRun' = [misses |-> monRun.misses + 1, successes |-> 0,
                  was_sovereign |-> monRun.was_sovereign \/ mon'.mode = "Sovereign"]
    /\ UNCHANGED notMon

\* the clock behind Instant::now()
MonTimePasses ==
    /\ mon.last_pulse < MaxPulseAge
    /\ mon' = [mon EXCEPT !.last_pulse = @ + 1]
    /\ UNCHANGED monRun
    /\ UNCHANGED notMon

----------------------------------------------------------------------------
(* DefaultCongestionController (crates/httpx-transport/src/reliability.rs) *)

\* a u64 as four 16-bit limbs, the most significant first
Limb == 65536
U64(a, b, c, d) == <<a, b, c, d>>

\* x * k for a small k, with the carry out of the top limb in front (five limbs)
WideMul(x, k) ==
    LET p4 == x[4] * k
        p3 == x[3] * k + (p4 \div Limb)
        p2 == x[2] * k + (p3 \div Limb)
        p1 == x[1] * k + (p2 \div Limb)
    IN  <<p1 \div Limb, p1 % Limb, p2 % Limb, p3 % Limb, p4 % Limb>>

\* x / 10 on a u64
U64Div10(x) ==
    LET n2 == (x[1] % 10) * Limb + x[2]
        n3 == (n2 % 10) * Limb + x[3]
        n4 == (n3 % 10) * Limb + x[4]
    IN  <<x[1] \div 10, n2 \div 10, n3 \div 10, n4 \div 10>>

\* a > b, limb by limb from the top
LimbsGreater(a, b) ==
    \E i \in 1..Len(a) : a[i] > b[i] /\ \A j \in 1..(i - 1) : a[j] = b[j]

\* line 36: (self.base_rtt * 12) / 10 with the multiplication kept in the u64
Threshold(base_rtt) == U64Div10(Tail(WideMul(base_rtt, 12)))
ThresholdOverflows(base_rtt) == WideMul(base_rtt, 12)[1] # 0

CcNew(base_rtt_nanos) == [base_rtt |-> base_rtt_nanos, active_level |-> 2]

NoCcOp == [op |-> "none", rtt |-> U64(0, 0, 0, 0), ret |-> 0, panicked |-> FALSE, lost |-> FALSE]

CcIdle == cc = CcNew(U64(0, 0, 0, 10000)) /\ ccOp = NoCcOp

\* base RTTs given to new: 0, 5 ns, the tests' 10 us, the largest whose
\* twelvefold fits a u64, the next one, and 2^63
BaseRtts == {U64(0, 0, 0, 0), U64(0, 0, 0, 5), U64(0, 0, 0, 10000),
             U64(5461, 21845, 21845, 21845), U64(5461, 21845, 21845, 21846),
             U64(32768, 0, 0, 0)}

\* RTTs given to evaluate_intent_credit
Rtts == {U64(0, 0, 0, 0), U64(0, 0, 0, 6), U64(0, 0, 0, 7), U64(0, 0, 0, 10000),
         U64(0, 0, 0, 11900), U64(0, 0, 0, 12000), U64(0, 0, 0, 12001), U64(0, 0, 0, 13000),
         U64(6553, 39321, 39321, 39321), U64(6553, 39321, 39321, 39322),
         U64(Limb - 1, Limb - 1, Limb - 1, Limb - 1)}

CcInit == (\E base \in BaseRtts : cc = CcNew(base)) /\ ccOp = NoCcOp

notCc == <<slabVars, ringVars, dispVars, engineVars, sessVars, threadVars, orchVars,
           ver_returned, trie_self, trieOp, mon, monRun, auxVars>>

\* evaluate_intent_credit: an overflowing multiplication panics in a build
\* with overflow checks and wraps in one without
CcEvaluate(current_rtt) ==
    /\ \E overflow_checks \in BOOLEAN :
          IF overflow_checks /\ ThresholdOverflows(cc.base_rtt)
          THEN /\ ccOp' = [op |-> "evaluate_intent_credit", rtt |-> current_rtt, ret |-> 0,
                           panicked |-> TRUE, lost |-> ccOp.lost]
               /\ UNCHANGED cc
          ELSE IF LimbsGreater(current_rtt, Threshold(cc.base_rtt))
               THEN /\ cc' = [cc EXCEPT !.active_level = 0]
                    /\ ccOp' = [op |-> "evaluate_intent_credit", rtt |-> current_rtt, ret |-> 0,
                                panicked |-> FALSE, lost |-> ccOp.lost]
               ELSE /\ ccOp' = [op |-> "evaluate_intent_credit", rtt |-> current_rtt,
                                ret |-> cc.active_level, panicked |-> FALSE,
                                lost |-> ccOp.lost]
                    /\ UNCHANGED cc
    /\ UNCHANGED notCc

CcNotifyLoss ==
    /\ cc' = [cc EXCEPT !.active_level = 0]
    /\ ccOp' = [op |-> "notify_loss", rtt |-> U64(0, 0, 0, 0), ret |-> 0, panicked |-> FALSE,
                lost |-> TRUE]
    /\ UNCHANGED notCc

----------------------------------------------------------------------------
(* SqBridge (crates/httpx-core/src/bridge.rs) *)

\* usize indices are kept in the two's complement reading: usize::MAX is -1,
\* and the wrap of wrapping_add from usize::MAX to 0 is the step from -1 to 0

RECURSIVE is_power_of_two(_)
is_power_of_two(n) == n = 1 \/ (n > 1 /\ n % 2 = 0 /\ is_power_of_two(n \div 2))

MaxCapacity == 4       \* capacities given to SqBridge::new are the powers of two up to here
MaxItems == 5          \* try_push is called at most this many times
BridgeCapacities == {c \in 1 .. MaxCapacity : is_power_of_two(c)}
\* head and tail of an empty bridge: 0 after construction, usize::MAX - 1
\* after that many items went through
IndexStarts == {0, -2}

NoItem == 0            \* None in a slot; the items are 1, 2, ...

BridgeAfter(capacity, passed) ==
    [head |-> passed, tail |-> passed, buffer |-> [i \in 0 .. (capacity - 1) |-> NoItem],
     mask |-> capacity - 1]
BridgeNew(capacity) == BridgeAfter(capacity, 0)

\* a.wrapping_sub(b) >= n, for 1 <= n <= isize::MAX: a difference below zero
\* reads as an unsigned value above isize::MAX
WrappingSubAtLeast_Above(a, b, n) == (a - b) < 0 \/ (a - b) > n
WrappingSubAtLeast(a, b, n) == (a - b) < 0 \/ (a - b) >= n

\* index & mask, mask + 1 being a power of two
MaskIndex(index, mask) == index % (mask + 1)

\* line 68: tail == head
PopEmpty_Never(tail, head) == FALSE
PopEmpty(tail, head) == tail = head

BridgeThreadsIdle ==
    [ppc |-> "idle", phead |-> 0, pitem |-> NoItem, pret |-> "none",
     cpc |-> "idle", ctail |-> 0, citem |-> NoItem, cret |-> <<>>]
NoBridgeLog == [pushed |-> <<>>, popped |-> <<>>, calls |-> 0]

BridgeIdle == bridge = BridgeNew(1) /\ bth = BridgeThreadsIdle /\ blog = NoBridgeLog

notAux == <<slabVars, ringVars, dispVars, engineVars, sessVars, threadVars, orchVars,
            ver_returned, trie_self, trieOp, mon, monRun, cc, ccOp>>

\* try_push(item), line 44: the producer reads its own head
TryPushBegin ==
    /\ bth.ppc = "idle" /\ blog.calls < MaxItems
    /\ bth' = [bth EXCEPT !.ppc = "load_tail", !.phead = bridge.head,
                          !.pitem = blog.calls + 1, !.pret = "none"]
    /\ blog' = [blog EXCEPT !.calls = @ + 1]
    /\ UNCHANGED <<bridge, gossip, gl, slab_map, notAux>>

\* lines 45-49: reads tail and returns Err(Congested) on a full ring
TryPushCheck ==
    /\ bth.ppc = "load_tail"
    /\ LET tail == bridge.tail
       IN  bth' = IF WrappingSubAtLeast(bth.phead, tail, bridge.mask + 1)
                  THEN [bth EXCEPT !.ppc = "idle", !.pret = "Congested"]
                  ELSE [bth EXCEPT !.ppc = "write"]
    /\ UNCHANGED <<bridge, blog, gossip, gl, slab_map, notAux>>

\* lines 51-57: ptr::write(slot, Some(item))
TryPushWrite ==
    /\ bth.ppc = "write"
    /\ bridge' = [bridge EXCEPT !.buffer[MaskIndex(bth.phead, bridge.mask)] = bth.pitem]
    /\ bth' = [bth EXCEPT !.ppc = "store"]
    /\ UNCHANGED <<blog, gossip, gl, slab_map, notAux>>

\* lines 59-60: head.store(head.wrapping_add(1)) and Ok(())
TryPushStore ==
    /\ bth.ppc = "store"
    /\ bridge' = [bridge EXCEPT !.head = bth.phead + 1]
    /\ bth' = [bth EXCEPT !.ppc = "idle", !.pret = "Ok"]
    /\ blog' = [blog EXCEPT !.pushed = Append(@, bth.pitem)]
    /\ UNCHANGED <<gossip, gl, slab_map, notAux>>

\* pop(), line 65: the consumer reads its own tail
PopBegin ==
    /\ bth.cpc = "idle"
    /\ bth' = [bth EXCEPT !.cpc = "load_head", !.ctail = bridge.tail, !.cret = <<>>]
    /\ UNCHANGED <<bridge, blog, gossip, gl, slab_map, notAux>>

\* lines 66-70: reads head and returns None on an empty ring
PopCheck ==
    /\ bth.cpc = "load_head"
    /\ LET head == bridge.head
       IN  bth' = IF PopEmpty(bth.ctail, head)
                  THEN [bth EXCEPT !.cpc = "idle", !.cret = <<NoItem>>]
                  ELSE [bth EXCEPT !.cpc = "replace"]
    /\ UNCHANGED <<bridge, blog, gossip, gl, slab_map, notAux>>

\* lines 72-78: ptr::replace(slot, None)
PopReplace ==
    /\ bth.cpc = "replace"
    /\ LET idx == MaskIndex(bth.ctail, bridge.mask)
       IN  /\ bth' = [bth EXCEPT !.cpc = "store", !.citem = bridge.buffer[idx]]
           /\ bridge' = [bridge EXCEPT !.buffer[idx] = NoItem]
    /\ UNCHANGED <<blog, gossip, gl, slab_map, notAux>>

\* lines 80-81: tail.store(tail.wrapping_add(1)) and the item
PopStore ==
    /\ bth.cpc = "store"
    /\ bridge' = [bridge EXCEPT !.tail = bth.ctail + 1]
    /\ bth' = [bth EXCEPT !.cpc = "idle", !.cret = <<bth.citem>>]
    /\ blog' = [blog EXCEPT !.popped = Append(@, bth.citem)]
    /\ UNCHANGED <<gossip, gl, slab_map, notAux>>

----------------------------------------------------------------------------
(* GossipProtocol (crates/httpx-cluster/src/gossip.rs) *)

NumListeners == 2      \* tasks that run listen on one GossipProtocol
MaxSeq == 2            \* sequence numbers of the received deltas are 0..MaxSeq
Listeners == 1 .. NumListeners
SeqNumbers == 0 .. MaxSeq

GossipNew == [last_seq |-> 0, forwarded |-> <<>>]
ListenerIdle == [pc |-> "recv", current |-> 0, delta |-> 0]
GossipIdle == gossip = GossipNew /\ gl = [l \in Listeners |-> ListenerIdle]

\* line 53: delta.sequence_number > current
SeqNewer_OrEqual(sequence_number, current) == sequence_number >= current
SeqNewer(sequence_number, current) == sequence_number > current

\* lines 50-52: a datagram that decodes to a delta, and the load of last_seq
ListenLoad(l, sequence_number) ==
    /\ gl[l].pc = "recv"
    /\ gl' = [gl EXCEPT ![l] = [pc |-> "decide", current |-> gossip.last_seq,
                                 delta |-> sequence_number]]
    /\ UNCHANGED <<gossip, bridge, bth, blog, slab_map, notAux>>

\* lines 53-64: the comparison and the compare_exchange; current and delta
\* end with the loop body
ListenDecide(l) ==
    /\ gl[l].pc = "decide"
    /\ IF SeqNewer(gl[l].delta, gl[l].current) /\ gossip.last_seq = gl[l].current
       THEN /\ gossip' = [gossip EXCEPT !.last_seq = gl[l].delta]
            /\ gl' = [gl EXCEPT ![l].pc = "send"]
       ELSE /\ gl' = [gl EXCEPT ![l] = ListenerIdle]
            /\ UNCHANGED gossip
    /\ UNCHANGED <<bridge, bth, blog, slab_map, notAux>>

\* line 60: tx_delta.send(delta)
ListenSend(l) ==
    /\ gl[l].pc = "send"
    /\ gossip' = [gossip EXCEPT !.forwarded = Append(@, [by |-> l, seq |-> gl[l].delta])]
    /\ gl' = [gl EXCEPT ![l] = ListenerIdle]
    /\ UNCHANGED <<bridge, bth, blog, slab_map, notAux>>

----------------------------------------------------------------------------
(* The mapping of the SecureSlab (crates/httpx-dsa/src/slab.rs) *)

PAGE_SIZE == 4096
HUGE_PAGE_SIZE == 2 * 1024 * 1024

Max(a, b) == IF a > b THEN a ELSE b

\* lines 38-40: max(slots * PAGE_SIZE, HUGE_PAGE_SIZE) rounded up to 2 MB
huge_len(slots) ==
    ((Max(slots * PAGE_SIZE, HUGE_PAGE_SIZE) + HUGE_PAGE_SIZE - 1) \div HUGE_PAGE_SIZE)
        * HUGE_PAGE_SIZE

\* mmap of len bytes: the protection of each of its pages
mmap(len, prot) == [p \in 0 .. ((len \div PAGE_SIZE) - 1) |-> prot]

\* mprotect(base + offset, len, prot): the pages that the range touches
mprotect(pages, offset, len, prot) ==
    [p \in DOMAIN pages |->
        IF p * PAGE_SIZE < offset + len /\ (p + 1) * PAGE_SIZE > offset THEN prot
        ELSE pages[p]]

\* line 110
activate_offset(idx) == (1 + idx * 2) * PAGE_SIZE
activate_slot(m, idx) ==
    [m EXCEPT !.prot = mprotect(@, activate_offset(idx), PAGE_SIZE, "READ_WRITE")]

\* lines 98-102: for i in 0..slots { slab.activate_slot(i) }
RECURSIVE ActivateFrom(_, _)
ActivateFrom(m, i) == IF i >= m.slots THEN m ELSE ActivateFrom(activate_slot(m, i), i + 1)

\* SecureSlab::new(slots): hugetlb is whether the MAP_HUGETLB mmap succeeded
SecureSlabNew(slots, hugetlb) ==
    IF hugetlb
    THEN [huge_mode |-> TRUE, slots |-> slots, total_len |-> huge_len(slots),
          prot |-> mmap(huge_len(slots), "READ_WRITE")]
    ELSE ActivateFrom([huge_mode |-> FALSE, slots |-> slots,
                       total_len |-> (slots * 2 + 1) * PAGE_SIZE,
                       prot |-> mmap((slots * 2 + 1) * PAGE_SIZE, "NONE")], 0)

LayoutIdle == slab_map = SecureSlabNew(NumSlots, FALSE)

\* lines 130-136
get_slot_offset_Contiguous(m, idx) == idx * PAGE_SIZE
get_slot_offset(m, idx) == IF m.huge_mode THEN idx * PAGE_SIZE ELSE (1 + idx * 2) * PAGE_SIZE

SlabGetSlot(t, idx) ==
    \/ SlabOutOfRange(t, "get_slot", idx)
    \/ /\ InRange(idx)
       /\ slabOp' = [thread |-> t, op |-> "get_slot", idx |-> idx,
                        seen |-> get_slot_offset(slab_map, idx), panicked |-> FALSE]
       /\ UNCHANGED <<ref_counts, version_ids, rc_returned>>

----------------------------------------------------------------------------
\* the objects above as construction leaves them
AuxIdle == BridgeIdle /\ GossipIdle /\ LayoutIdle
LibInit == VersionsIdle /\ TrieIdle /\ MonInit /\ CcIdle /\ AuxIdle

----------------------------------------------------------------------------
(* Specifications *)

SessIdle ==
    /\ iiw_credit = InitialCredit
    /\ canceled = FALSE
    /\ mode = "ClusterIntegrated"

\* threads on one SecureSlab
InitSlab ==
    /\ SlabInit /\ RingInit /\ DispInit /\ EngineNew(TRUE) /\ SessIdle /\ ThreadInit
    /\ OrchInit(NewTrie) /\ LibInit

NextSlab ==
    /\ \E t \in SlabThreads, idx \in HandleArgs :
          \/ SlabIncrementRc(t, idx)
          \/ SlabDecrementRc(t, idx)
          \/ SlabExplicitRelease(t, idx)
          \/ SlabIsInFlight(t, idx)
    /\ UNCHANGED <<ringVars, dispVars, orchVars, libVars, engineVars, sessVars, threadVars>>

SpecSlab == InitSlab /\ [][NextSlab]_vars

\* one worker: its ring, the kernel behind the ring, the shared slab's owner
InitDispatcher ==
    /\ SlabInit /\ RingInit /\ DispInit /\ SessIdle /\ ThreadInit
    /\ \E trie \in DispTries : EngineInstalled(TRUE, trie) /\ OrchInit(trie)
    /\ LibInit

ReclaimStep == Reclaim /\ UNCHANGED <<hist, grants, epc, eloc, sessVars, slabVars, ringVars, dispVars, orchVars, libVars>>

\* the dispatcher's calls made directly: submit_linked_burst and reap_completions
NextDispatcher ==
    \/ \E p \in PayloadArgs, t \in HandleArgs, v \in Versions : SubmitGate(p, t, v)
    \/ SubmitCommit
    \/ KernelConsume
    \/ \E u \in UserDataSet : KernelComplete(u)
    \/ ReapCompletions
    \/ \E i \in VersionedSlots, v \in Versions : SetVersion(i, v)

SpecDispatcher == InitDispatcher /\ [][NextDispatcher]_vars

\* run_loop: reap, then one control signal or one datagram
NextWorker ==
    \/ ReapCompletions
    \/ \E data \in Contexts, a \in Addrs : OnPacket(data, a)
    \/ SubmitCommit
    \/ \E a \in Addrs : HandlePivot(a)
    \/ HandleKillAll
    \/ \E trie \in DispTries : HandleSwapTrie(trie)
    \/ KernelConsume
    \/ \E u \in UserDataSet : KernelComplete(u)
    \/ \E i \in VersionedSlots, v \in Versions : SetVersion(i, v)

SpecWorker == InitDispatcher /\ [][NextWorker]_vars

\* one worker receiving datagrams from its peers, with its ring and kernel,
\* the orchestrator draining the learning channel, and no IntentAck handling
\* (the dispatcher has none)
MaxSent == 11          \* on_packet is not called for a peer that was sent this many pushes

InitBudget ==
    /\ SlabInit /\ RingInit /\ SessIdle /\ ThreadInit
    /\ dpc = "idle" /\ dloc = NoCall /\ dres = "none"
    /\ pivoted = {} /\ pushes = [a \in Addrs |-> 0] /\ killed = FALSE
    /\ sent = CountingSent
    /\ EngineInstalled(TRUE, RouteTrie) /\ OrchInit(RouteTrie)
    /\ LibInit

NextBudget ==
    \/ \E a \in Addrs : sent.to[a] < MaxSent /\ OnPacket(CtxA, a)
    \/ SubmitCommit
    \/ KernelConsume
    \/ \E u \in UserDataSet : KernelComplete(u)
    \/ ReapCompletions
    \/ OrchLearn
    \/ OrchSend
    \/ \E w \in Workers : WorkerControl(w)

SpecBudget == InitBudget /\ [][NextBudget]_vars

\* one installer and the readers of fast_path_adversarial.rs: swap_weights
\* against fire_push_if_likely
InitSwap ==
    /\ SlabInit /\ RingInit /\ DispInit /\ EngineNew(TRUE) /\ SessIdle /\ ThreadInit
    /\ OrchInit(NewTrie) /\ LibInit

NextSwap ==
    \/ \E trie \in TrieChoices : SwapWeights(trie)
    \/ \E t \in EngineThreads : fire_push_if_likely(t, CtxA)
    \/ \E t \in EngineThreads : CheckCanceled(t)
    \/ \E t \in EngineThreads : LoadTrie(t)
    \/ \E t \in EngineThreads : ReadPTrue(t)
    \/ \E t \in EngineThreads : ReadPFalse(t)
    \/ \E t \in EngineThreads : ConsumeLoad(t)
    \/ \E t \in EngineThreads : ConsumeCas(t)
    \/ ReclaimStep

SpecSwap == InitSwap /\ [][NextSwap]_vars

\* the engine's operations called one after the other on one installed trie
\* and one session
EngineCallers == {"t1"}

InitEngine ==
    /\ SlabInit /\ RingInit /\ DispInit /\ SessInit /\ ThreadInit
    /\ EngineInstalled(TRUE, HotTrie) /\ OrchInit(HotTrie) /\ LibInit

NextEngine ==
    \/ \E t \in EngineCallers, ctx \in Contexts : fire_push_if_likely(t, ctx)
    \/ \E t \in EngineCallers, path \in Contexts : predict_for_path_begin(t, path)
    \/ \E t \in EngineCallers, ctx \in Contexts, bit \in BOOLEAN : TrainBegin(t, ctx, bit)
    \/ \E t \in EngineCallers : TrainObserve(t)
    \/ \E t \in EngineCallers, a \in Addrs : CancelFor(t, a)
    \/ \E t \in EngineCallers : CheckCanceled(t)
    \/ \E t \in EngineCallers : LoadTrie(t)
    \/ \E t \in EngineCallers : ReadPTrue(t)
    \/ \E t \in EngineCallers : ReadPFalse(t)
    \/ \E t \in EngineCallers : ReadNode(t)
    \/ \E t \in EngineCallers : ConsumeLoad(t)
    \/ \E t \in EngineCallers : ConsumeCas(t)
    \/ ReclaimStep

SpecEngine == InitEngine /\ [][NextEngine]_vars

\* one Session shared by the threads that call the engine and the session
InitSession ==
    /\ SlabInit /\ RingInit /\ DispInit /\ SessIdle /\ ThreadInit
    /\ \E act \in BOOLEAN, trie \in TrieChoices : EngineInstalled(act, trie) /\ OrchInit(trie)
    /\ LibInit

NextSession ==
    \/ \E t \in EngineThreads, ctx \in Contexts : fire_push_if_likely(t, ctx)
    \/ \E t \in EngineThreads, path \in Contexts : predict_for_path_begin(t, path)
    \/ \E t \in EngineThreads : consume_credit_begin(t)
    \/ \E t \in EngineThreads : CheckCanceled(t)
    \/ \E t \in EngineThreads : LoadTrie(t)
    \/ \E t \in EngineThreads : ReadPTrue(t)
    \/ \E t \in EngineThreads : ReadPFalse(t)
    \/ \E t \in EngineThreads : ReadNode(t)
    \/ \E t \in EngineThreads : ConsumeLoad(t)
    \/ \E t \in EngineThreads : ConsumeCas(t)
    \/ \E t \in EngineThreads : Cancel(t)
    \/ \E t \in EngineThreads : ResetPivot(t)
    \/ \E t \in EngineThreads : ReplenishCredits(t)
    \/ \E t \in EngineThreads : HasCredit(t)
    \/ ReclaimStep

SpecSession == InitSession /\ [][NextSession]_vars

\* threads spending the credit of one session, counted from a session that
\* has 0, 1, 2 or all of its credit left
MaxConsumes == 12
StartCredits == {0, 1, 2, InitialCredit}
InFlight == Cardinality({t \in EngineThreads : epc[t] # "idle"})
MayCall == grants.calls + InFlight < MaxConsumes

InitCredit ==
    /\ SlabInit /\ RingInit /\ DispInit
    /\ \E credit \in StartCredits :
          /\ iiw_credit = credit
          /\ grants = CountingFrom(credit)
          /\ hist = IF credit = InitialCredit THEN NoHist ELSE Impure
    /\ canceled = FALSE /\ mode = "ClusterIntegrated"
    /\ epc = [t \in EngineThreads |-> "idle"]
    /\ eloc = [t \in EngineThreads |-> IdleLoc]
    /\ EngineInstalled(TRUE, HotTrie) /\ OrchInit(HotTrie)
    /\ LibInit

NextCredit ==
    \/ \E t \in EngineThreads, ctx \in Contexts : MayCall /\ fire_push_if_likely(t, ctx)
    \/ \E t \in EngineThreads, path \in Contexts : MayCall /\ predict_for_path_begin(t, path)
    \/ \E t \in EngineThreads : MayCall /\ consume_credit_begin(t)
    \/ \E t \in EngineThreads : CheckCanceled(t)
    \/ \E t \in EngineThreads : LoadTrie(t)
    \/ \E t \in EngineThreads : ReadPTrue(t)
    \/ \E t \in EngineThreads : ReadPFalse(t)
    \/ \E t \in EngineThreads : ReadNode(t)
    \/ \E t \in EngineThreads : ConsumeLoad(t)
    \/ \E t \in EngineThreads : ConsumeCas(t)
    \/ \E t \in EngineThreads : MayCall /\ ReplenishCredits(t)

SpecCredit == InitCredit /\ [][NextCredit]_vars

\* the orchestrator, the learning channel and the workers' control channels
InitOrchestrator ==
    /\ SlabInit /\ RingInit /\ DispInit /\ SessIdle /\ ThreadInit
    /\ \E trie \in ServerTries : EngineInstalled(TRUE, trie) /\ OrchInit(trie)
    /\ LibInit

NextOrchestrator ==
    \/ \E data \in Contexts : WorkerEmit(data)
    \/ \E w \in Workers : WorkerControl(w)
    \/ OrchLearn
    \/ OrchTick
    \/ OrchSend
    \/ TimePasses

SpecOrchestrator == InitOrchestrator /\ [][NextOrchestrator]_vars

\* run_loop and handle_control of the worker modelled in full: the signal it
\* takes from its control channel is a SwapTrie (the orchestrator sends
\* nothing else), whose trie it clones into swap_weights
WorkerHandleControl ==
    /\ dpc = "idle"
    /\ control_q[ThisWorker] # <<>>
    /\ LET signal == Head(control_q[ThisWorker])
       IN  /\ signal.kind = "SwapTrie"
           /\ swap_weights("worker", signal.trie)
           /\ installed' = [installed EXCEPT ![ThisWorker] = signal.trie]
    /\ control_q' = [control_q EXCEPT ![ThisWorker] = Tail(@)]
    /\ UNCHANGED <<active, slabVars, ringVars, dispVars, sessVars, threadVars, libVars>>
    /\ UNCHANGED <<learn_q, server_trie, shadow_trie, events_since_swap, elapsed, opc>>

\* the registry's trie, and the same trie after it merged a peer's copy that
\* carried sequence number 2
MergedRouteTrie == merge_newer(RouteTrie, Peer(RouteTrie, 2)).trie
StartTries == {RouteTrie, MergedRouteTrie}

\* a server started with one of these tries: its workers, their control
\* channels and the orchestrator
InitInstall ==
    /\ SlabInit /\ RingInit /\ DispInit /\ SessIdle /\ ThreadInit
    /\ \E trie \in StartTries : EngineInstalled(TRUE, trie) /\ OrchInit(trie)
    /\ LibInit

NextInstall ==
    \/ \E data \in Contexts : WorkerEmit(data)
    \/ OrchLearn
    \/ OrchSend
    \/ \E w \in Workers \ {ThisWorker} : WorkerControl(w)
    \/ WorkerHandleControl
    \/ ReclaimStep

SpecInstall == InitInstall /\ [][NextInstall]_vars

\* fire_push_if_likely from several threads on an engine that is active or
\* not, while tries are installed
InitFire ==
    /\ SlabInit /\ RingInit /\ DispInit /\ SessIdle /\ ThreadInit
    /\ \E act \in BOOLEAN, trie \in TrieChoices : EngineInstalled(act, trie) /\ OrchInit(trie)
    /\ LibInit

NextFire ==
    \/ SwapWeights(ColdTrie)
    \/ \E t \in EngineThreads, ctx \in Contexts : fire_push_if_likely(t, ctx)
    \/ \E t \in EngineThreads : CheckCanceled(t)
    \/ \E t \in EngineThreads : LoadTrie(t)
    \/ \E t \in EngineThreads : ReadPTrue(t)
    \/ \E t \in EngineThreads : ReadPFalse(t)
    \/ \E t \in EngineThreads : ConsumeLoad(t)
    \/ \E t \in EngineThreads : ConsumeCas(t)
    \/ ReclaimStep

SpecFire == InitFire /\ [][NextFire]_vars

\* train called by one thread on an engine that is active or not, for a
\* session of either mode
TrainTries == {HotTrie, NearFullTrie}

InitTrain ==
    /\ SlabInit /\ RingInit /\ DispInit /\ SessInit /\ ThreadInit
    /\ \E act \in BOOLEAN, trie \in TrainTries : EngineInstalled(act, trie) /\ OrchInit(trie)
    /\ LibInit

NextTrain ==
    \/ \E t \in EngineCallers, ctx \in Contexts, bit \in BOOLEAN : TrainBegin(t, ctx, bit)
    \/ \E t \in EngineCallers : TrainObserve(t)

SpecTrain == InitTrain /\ [][NextTrain]_vars

\* the methods of one LinearIntentTrie called one after the other
InitTrie ==
    /\ SlabInit /\ RingInit /\ DispInit /\ EngineNew(TRUE) /\ SessIdle /\ ThreadInit
    /\ OrchInit(NewTrie)
    /\ VersionsIdle /\ MonInit /\ CcIdle /\ AuxIdle
    /\ TrieInit

NextTrie ==
    \/ \E context \in Contexts, next_bit \in BOOLEAN : TrieObserve(context, next_bit)
    \/ \E path \in Contexts : TrieWarm(path)
    \/ \E context \in Contexts, handle \in TrieHandles, version_id \in TrieVersions :
          TrieAssociatePayload(context, handle, version_id)
    \/ \E other \in PeerTries : TrieMergeNewer(other)
    \/ \E context \in Contexts : TrieGetProbability(context)
    \/ \E path \in Contexts : TrieGetNodeAtPath(path)

SpecTrie == InitTrie /\ [][NextTrie]_vars

\* threads that read and write the versions of one SecureSlab
InitVersions ==
    /\ SlabInit /\ RingInit /\ DispInit /\ EngineNew(TRUE) /\ SessIdle /\ ThreadInit
    /\ OrchInit(NewTrie) /\ LibInit

NextVersions ==
    \/ \E t \in SlabThreads, idx \in HandleArgs : SlabGetVersion(t, idx)
    \/ \E t \in SlabThreads, idx \in HandleArgs, version \in VersionArgs :
          SlabSetVersion(t, idx, version)
    \/ \E t \in SlabThreads, idx \in HandleArgs : SlabIncrementVersion(t, idx)

SpecVersions == InitVersions /\ [][NextVersions]_vars

\* heartbeats and misses recorded on one ClusterStability
InitMonitor ==
    /\ SlabInit /\ RingInit /\ DispInit /\ EngineNew(TRUE) /\ SessIdle /\ ThreadInit
    /\ OrchInit(NewTrie) /\ LibInit

NextMonitor ==
    \/ RecordSuccess
    \/ RecordMiss
    \/ MonTimePasses

SpecMonitor == InitMonitor /\ [][NextMonitor]_vars

\* one producer and one consumer on one SqBridge
InitBridge ==
    /\ SlabInit /\ RingInit /\ DispInit /\ EngineNew(TRUE) /\ SessIdle /\ ThreadInit
    /\ OrchInit(NewTrie)
    /\ VersionsIdle /\ TrieIdle /\ MonInit /\ CcIdle /\ GossipIdle /\ LayoutIdle
    /\ \E capacity \in BridgeCapacities, passed \in IndexStarts :
          bridge = BridgeAfter(capacity, passed)
    /\ bth = BridgeThreadsIdle /\ blog = NoBridgeLog

NextBridge ==
    \/ TryPushBegin
    \/ TryPushCheck
    \/ TryPushWrite
    \/ TryPushStore
    \/ PopBegin
    \/ PopCheck
    \/ PopReplace
    \/ PopStore

SpecBridge == InitBridge /\ [][NextBridge]_vars

\* the tasks that run listen on one GossipProtocol
InitGossip ==
    /\ SlabInit /\ RingInit /\ DispInit /\ EngineNew(TRUE) /\ SessIdle /\ ThreadInit
    /\ OrchInit(NewTrie) /\ LibInit

NextGossip ==
    \/ \E l \in Listeners, sequence_number \in SeqNumbers : ListenLoad(l, sequence_number)
    \/ \E l \in Listeners : ListenDecide(l)
    \/ \E l \in Listeners : ListenSend(l)

SpecGossip == InitGossip /\ [][NextGossip]_vars

\* threads on one SecureSlab, in either layout; the version calls are the ones
\* with a slot argument past the last slot
OutOfRangeArgs == HandleArgs \ Slots
InitLayout ==
    /\ SlabInit /\ RingInit /\ DispInit /\ EngineNew(TRUE) /\ SessIdle /\ ThreadInit
    /\ OrchInit(NewTrie)
    /\ VersionsIdle /\ TrieIdle /\ MonInit /\ CcIdle /\ BridgeIdle /\ GossipIdle
    /\ \E hugetlb \in BOOLEAN : slab_map = SecureSlabNew(NumSlots, hugetlb)

NextLayout ==
    \/ /\ \E t \in SlabThreads, idx \in HandleArgs :
             \/ SlabGetSlot(t, idx)
             \/ SlabIncrementRc(t, idx)
             \/ SlabDecrementRc(t, idx)
             \/ SlabExplicitRelease(t, idx)
             \/ SlabIsInFlight(t, idx)
       /\ UNCHANGED <<ringVars, dispVars, orchVars, libVars, engineVars, sessVars, threadVars>>
    \/ \E t \in SlabThreads, idx \in OutOfRangeArgs : SlabGetVersion(t, idx)
    \/ \E t \in SlabThreads, idx \in OutOfRangeArgs, version \in VersionArgs :
          SlabSetVersion(t, idx, version)
    \/ \E t \in SlabThreads, idx \in OutOfRangeArgs : SlabIncrementVersion(t, idx)

SpecLayout == InitLayout /\ [][NextLayout]_vars

\* calls on one DefaultCongestionController
InitCongestion ==
    /\ SlabInit /\ RingInit /\ DispInit /\ EngineNew(TRUE) /\ SessIdle /\ ThreadInit
    /\ OrchInit(NewTrie)
    /\ VersionsIdle /\ TrieIdle /\ MonInit /\ AuxIdle
    /\ CcInit

NextCongestion ==
    \/ \E current_rtt \in Rtts : CcEvaluate(current_rtt)
    \/ CcNotifyLoss

SpecCongestion == InitCongestion /\ [][NextCongestion]_vars

\* the operations of one session and its engine called one after the other
NextCalls ==
    \/ \E t \in EngineCallers, ctx \in Contexts : fire_push_if_likely(t, ctx)
    \/ \E t \in EngineCallers, path \in Contexts : predict_for_path_begin(t, path)
    \/ \E t \in EngineCallers : CheckCanceled(t)
    \/ \E t \in EngineCallers : LoadTrie(t)
    \/ \E t \in EngineCallers : ReadPTrue(t)
    \/ \E t \in EngineCallers : ReadPFalse(t)
    \/ \E t \in EngineCallers : ReadNode(t)
    \/ \E t \in EngineCallers : ConsumeLoad(t)
    \/ \E t \in EngineCallers : ConsumeCas(t)
    \/ \E t \in EngineCallers : Cancel(t)
    \/ \E t \in EngineCallers : ResetPivot(t)
    \/ \E t \in EngineCallers : ReplenishCredits(t)
    \/ ReclaimStep

SpecCalls == InitSession /\ [][NextCalls]_vars

----------------------------------------------------------------------------
(* Claims *)

\* C1: the stored reference count of a slot never goes below zero (a
\* decrement_rc at count 0 does not leave the counter wrapped around), and
\* explicit_release returns normally exactly when the count it observes is 0.
C1_RcNeverBelowZero ==
    /\ \A i \in Slots : ref_counts[i] >= 0
    /\ (slabOp.op = "explicit_release" /\ InRange(slabOp.idx))
          => (slabOp.panicked <=> slabOp.seen # 0)

\* C2: the reference count of each slot equals the number of bursts pushed
\* and not yet reaped that reference it as payload plus the number that
\* reference it as template (so once everything is reaped every count is 0).
C2_RcEqualsUnreapedRefs ==
    \A i \in Slots : ref_counts[i] = InFlightRefs(i)

\* C3: when submit_linked_burst passes the gate but the submission queue is
\* full, it reports backpressure, both reference counts are the same after
\* the call as before it, and nothing is queued.
C3_CongestedLeavesRcUnchanged ==
    [][(dpc = "gated" /\ dres' = "sqfull")
          => (ref_counts' = ref_counts /\ sq' = sq /\ kernel' = kernel)]_vars

\* C4: a call whose gate reads a version different from expected_version
\* fails with the stale-payload error, pushes nothing and changes no
\* reference count; a call is rejected as stale only when the two differ; and
\* a burst is only ever on its way to the ring if the version the gate read
\* equalled expected_version, also while set_version runs concurrently.
C4_GateStep == dpc = "idle" /\ <<dpc', dres', dloc'>> # <<dpc, dres, dloc>> /\ dres' # "panic"
C4_FreshnessGate ==
    /\ [](dpc = "gated" => dloc.current_version = dloc.expected)
    /\ [][C4_GateStep =>
            /\ (dloc'.current_version # dloc'.expected) <=> (dres' = "stale")
            /\ (dloc'.current_version # dloc'.expected) <=> (dpc' # "gated")
            /\ dloc'.current_version = version_ids[dloc'.payload]
            /\ ref_counts' = ref_counts
            /\ ringVars' = ringVars]_vars

\* C4 witness: a call was rejected as stale while an earlier burst is still
\* unreaped, and set_version has since moved the slot's version again
C4_Witness ==
    /\ dres = "stale"
    /\ dloc.current_version # dloc.expected
    /\ ref_counts[dloc.payload] > 0
    /\ version_ids[dloc.payload] # dloc.current_version

\* C5: while one thread installs tries with swap_weights and other threads
\* call fire_push_if_likely, the trie a reader loaded under its guard is not
\* reclaimed before the guard is dropped, the probabilities and the decision
\* of one call are those of that single published trie, and every call
\* returns None, Some(true) or Some(false).
C5_Reading(t) == eloc[t].call = "fire" /\ epc[t] \in {"loaded", "ptrue", "decided", "cas"}
C5_ShadowSwapSafe ==
    /\ \A t \in EngineThreads :
          C5_Reading(t) =>
            LET ptr == eloc[t].ptr
                p_true == get_probability(published[ptr], eloc[t].ctx, TRUE)
                p_false == get_probability(published[ptr], eloc[t].ctx, FALSE)
            IN  /\ tries[ptr].live
                /\ tries[ptr].trie = published[ptr]
                /\ epc[t] # "loaded" => eloc[t].p_true = p_true
                /\ epc[t] \in {"decided", "cas"} => eloc[t].decision = Decision(p_true, p_false)
    /\ \A t \in EngineThreads :
          eloc[t].call = "fire" => eloc[t].ret \in {None, <<TRUE>>, <<FALSE>>}

\* C5 witness: a reader has decided on a trie that swap_weights has replaced
\* by a different one in the meantime; the old trie waits for that reader
C5_Witness ==
    \E t \in EngineThreads :
        /\ C5_Reading(t) /\ epc[t] = "decided"
        /\ eloc[t].ptr # trie_ptr
        /\ tries[eloc[t].ptr].trie # tries[trie_ptr].trie
        /\ \E g \in garbage : g.ptr = eloc[t].ptr /\ t \in g.waiting

\* C6: a trie installed in the engine keeps the nodes, weights, payload
\* handles and versions it was published with, whatever the engine is
\* asked to do (fire_push_if_likely, predict_for_path, train, cancel_for).
C6_InstalledTrieImmutable ==
    \A id \in 1 .. Len(tries) : tries[id].live => tries[id].trie = published[id]

\* C7: the credit of a session starts at 10 and stays in 0..10; it only
\* changes by a decrement of one from a positive value or by
\* replenish_credits setting it to 10; consume_credit returns false exactly
\* when it loads 0, leaving the credit as it is, and returns true only with
\* the decrement.
C7_ConsumeReturns(t) ==
    eloc[t].call = "consume" /\ epc[t] # "idle" /\ epc'[t] = "idle"
C7_CreditInRange ==
    /\ iiw_credit = InitialCredit
    /\ [](iiw_credit \in 0 .. InitialCredit)
    /\ [][iiw_credit' # iiw_credit =>
              \/ iiw_credit > 0 /\ iiw_credit' = iiw_credit - 1
              \/ \E t \in EngineThreads : ReplenishCredits(t) /\ iiw_credit' = InitialCredit]_vars
    /\ [][\A t \in EngineThreads :
              /\ (epc[t] = "decided" /\ eloc[t].call = "consume" /\ iiw_credit = 0
                     /\ eloc'[t] # eloc[t])
                   => (C7_ConsumeReturns(t) /\ eloc'[t].ret = <<FALSE>>)
              /\ C7_ConsumeReturns(t) =>
                   IF eloc'[t].ret = <<FALSE>>
                   THEN iiw_credit = 0 /\ iiw_credit' = 0
                   ELSE iiw_credit > 0 /\ iiw_credit' = iiw_credit - 1]_vars

\* C7 witness: the credit is exhausted and a consume_credit has returned false
C7_Witness ==
    /\ iiw_credit = 0
    /\ \E t \in EngineThreads :
          eloc[t].call = "consume" /\ epc[t] = "idle" /\ eloc[t].ret = <<FALSE>>

\* C8: on an active engine and a session that starts with credit 10 and is
\* never replenished or cancelled, fire_push_if_likely calls on contexts the
\* installed trie puts above the threshold return Some for the first ten
\* calls and None for every call after them.
C8_TenThenNone ==
    (active /\ hist.pure) => hist.somes = Min(hist.calls, InitialCredit)

\* C8 witness: more than ten such calls have returned
C8_Witness ==
    active /\ hist.pure /\ hist.calls > InitialCredit /\ hist.somes = InitialCredit

\* C9: a fire_push_if_likely or predict_for_path call that starts after
\* cancel() and before the next reset_pivot() returns None and consumes no
\* credit, and only reset_pivot() clears the cancelled flag.
C9_CancelHolds ==
    /\ [](\A t \in EngineThreads :
             (eloc[t].call \in {"fire", "predict"} /\ eloc[t].sealed) =>
                /\ canceled
                /\ epc[t] \in {"idle", "credit_ok"}
                /\ ~eloc[t].consumed
                /\ eloc[t].ret = None)
    /\ [][(canceled /\ ~canceled') => \E t \in EngineThreads : ResetPivot(t)]_vars

\* C9 witness: a call made under cancellation has returned None although the
\* session has its full credit and the installed trie is above the threshold
C9_Witness ==
    /\ canceled /\ active /\ iiw_credit = InitialCredit
    /\ AboveThreshold(get_probability(tries[trie_ptr].trie, CtxA, TRUE))
    /\ \E t \in EngineThreads :
          eloc[t].call = "fire" /\ eloc[t].sealed /\ epc[t] = "idle" /\ eloc[t].ret = None

\* C11: once the worker has handled KillAll its run_loop is over: it handles
\* no further datagram and no further control signal.
C11_KillAllEndsLoop ==
    [][killed => /\ ~(\E data \in Contexts, a \in Addrs : OnPacket(data, a))
                 /\ ~(\E a \in Addrs : HandlePivot(a))
                 /\ ~(\E trie \in DispTries : HandleSwapTrie(trie))]_vars

\* C12: the orchestrator is never held up by a worker: whenever it is about
\* to send a snapshot to a worker, the send can complete at once, also when
\* that worker's control channel is full because the worker is stalled.
C12_BroadcastNeverBlocks ==
    opc.pc = "sending" => ENABLED OrchSend

\* C13: every payload association (context to handle and version) of the
\* trie the workers were started with is resolved to the same handle and
\* version by every worker, whatever snapshots it has installed since.
C13_Resolve(trie, ctx) ==
    LET node == get_node_at_path(trie, ctx)
    IN  IF node = None \/ node[1].payload_handle = 0 THEN None
        ELSE <<node[1].payload_handle, node[1].version_id>>
C13_SwapKeepsAssociations ==
    \A w \in Workers, ctx \in Contexts :
        C13_Resolve(server_trie, ctx) # None
            => C13_Resolve(installed[w], ctx) = C13_Resolve(server_trie, ctx)

\* C19: a predict_for_path call that does not overlap another call on its
\* session returns Some((handle, version)) exactly when the engine is active,
\* the session is not cancelled and has credit, the path leads to a node of
\* the installed trie and that node's payload handle is not 0; the result is
\* then that node's handle and version and one credit is consumed; in every
\* other case the result is None and the credit is unchanged.
C19_Expected(path) ==
    LET node == get_node_at_path(tries[trie_ptr].trie, path)
    IN  IF active /\ ~canceled /\ iiw_credit > 0 /\ node # None /\ node[1].payload_handle > 0
        THEN <<node[1].payload_handle, node[1].version_id>>
        ELSE None
C19_PredictResult ==
    [][\A t \in EngineCallers :
          /\ \A path \in Contexts :
                (predict_for_path_begin(t, path) /\ epc'[t] = "idle")
                   => /\ C19_Expected(path) = None
                      /\ eloc'[t].ret = None
                      /\ iiw_credit' = iiw_credit
          /\ (eloc[t].call = "predict" /\ epc[t] # "idle" /\ epc'[t] = "idle")
                => /\ eloc'[t].ret = C19_Expected(eloc[t].ctx)
                   /\ iiw_credit' = iiw_credit - (IF eloc'[t].ret = None THEN 0 ELSE 1)
          /\ (eloc[t].call = "predict" /\ epc[t] # "idle" /\ epc'[t] # "idle")
                => iiw_credit' = iiw_credit]_vars

\* C19 witness: a call has returned the handle and version of the node and
\* taken the session's last credit
C19_Witness ==
    \E t \in EngineCallers :
        /\ eloc[t].call = "predict" /\ epc[t] = "idle"
        /\ eloc[t].ret = <<1, 1>> /\ eloc[t].consumed
        /\ iiw_credit = 0

\* C14: a swap starts exactly when a handled learning event brings the count
\* of events since the last swap to the event threshold, or when the ticker
\* fires with a count above 0 and the swap interval elapsed.  The count is
\* below the threshold whenever the orchestrator waits for its next event,
\* the event just received is observed in the shadow trie (and so in the
\* snapshot of a swap it triggers), and without events since the last swap
\* no swap starts and the sequence number only changes when a swap starts.
C14_SwapBegins == opc.pc = "select" /\ opc'.pc = "sending"
C14_EventHandled == learn_q # <<>> /\ learn_q' = Tail(learn_q)
C14_SwapTriggers ==
    /\ [](opc.pc = "select" => events_since_swap < EventsPerSwap)
    /\ [][C14_SwapBegins <=>
              \/ C14_EventHandled /\ events_since_swap + 1 = EventsPerSwap
              \/ OrchTick /\ events_since_swap > 0 /\ elapsed >= SwapInterval]_vars
    /\ [][C14_EventHandled =>
              /\ shadow_trie'.nodes = observe(shadow_trie, Head(learn_q)[1], Head(learn_q)[2]).nodes
              /\ events_since_swap' = events_since_swap + 1
              /\ C14_SwapBegins => opc'.snapshot = shadow_trie']_vars
    /\ [][(events_since_swap = 0 /\ ~C14_EventHandled) => ~C14_SwapBegins]_vars
    /\ [][shadow_trie'.sequence_number # shadow_trie.sequence_number => C14_SwapBegins]_vars

\* C14 witness: the event that reached the threshold has been observed and
\* its swap is being broadcast
C14_Witness ==
    /\ opc.pc = "sending"
    /\ events_since_swap = EventsPerSwap
    /\ WeightSum(opc.snapshot.nodes) = EventsPerSwap

\* C15: a swap raises the shadow trie's sequence number by exactly one and
\* takes its snapshot of the shadow trie as it is then; what is put on a
\* control channel is that snapshot and is never altered while it waits
\* there; the event counter is 0 when the swap is over; and the snapshots a
\* worker has installed and has waiting carry strictly increasing sequence
\* numbers.
C15_Increasing(w) ==
    LET q == control_q[w]
    IN  /\ \A i \in 1 .. Len(q) :
              /\ q[i].trie.sequence_number <= shadow_trie.sequence_number
              /\ i < Len(q) => q[i].trie.sequence_number < q[i + 1].trie.sequence_number
        /\ q # <<>> => installed[w].sequence_number < q[1].trie.sequence_number
C15_SwapStep ==
    /\ [](\A w \in Workers : C15_Increasing(w))
    /\ [](opc.pc = "sending" => opc.snapshot = shadow_trie)
    /\ [][(opc.pc = "select" /\ opc'.pc = "sending")
              => /\ shadow_trie'.sequence_number = shadow_trie.sequence_number + 1
                 /\ shadow_trie'.nodes = opc'.snapshot.nodes]_vars
    /\ [][\A w \in Workers :
              control_q'[w] # control_q[w]
                 => \/ control_q[w] # <<>> /\ control_q'[w] = Tail(control_q[w])
                    \/ /\ opc.pc = "sending"
                       /\ control_q'[w] = Append(control_q[w], SwapTrie(opc.snapshot))
                       /\ \A i \in 1 .. Len(control_q[w]) :
                             control_q[w][i].trie.sequence_number
                                < opc.snapshot.sequence_number]_vars
    /\ [][(opc.pc = "sending" /\ opc'.pc = "select") => events_since_swap' = 0]_vars

\* C15 witness: two snapshots wait for one worker and the shadow trie has
\* been observed further since the later one was taken
C15_Witness ==
    \E w \in Workers :
        /\ Len(control_q[w]) >= 2
        /\ control_q[w][1].trie.nodes # control_q[w][2].trie.nodes
        /\ shadow_trie.nodes # control_q[w][Len(control_q[w])].trie.nodes

\* C16: the learning channel is bounded: it never holds more events than
\* the capacity the system gives a channel (that of a control channel); a
\* send that finds it at capacity returns at once and drops the event.
C16_LearnChannelBounded ==
    Len(learn_q) <= ControlCapacity

\* C17: a submit_linked_burst that returns Ok has put exactly one submission
\* on the ring, carrying its two handles, and as long as a submission is on
\* the ring, in the kernel or completed but not reaped, is_in_flight of its
\* payload slot is true.
C17_Pushed(u) == CountIn(sq, u) + kernel[u]
C17_InFlightUntilReaped ==
    /\ [](\A u \in UserDataSet : Unreaped(u) > 0 => is_in_flight(ref_counts, u.lo - 1))
    /\ [][(dpc = "gated" /\ dres' = "ok") =>
              /\ cq' = cq
              /\ \A u \in UserDataSet :
                    (C17_Pushed(u))' = C17_Pushed(u) +
                        (IF u = EncodeUserData(dloc.payload, dloc.template) THEN 1 ELSE 0)
              /\ is_in_flight(ref_counts', dloc.payload)]_vars

\* C17 witness: a burst was submitted, the kernel has completed it, and its
\* completion has not been reaped yet
C17_Witness ==
    /\ dres = "ok"
    /\ \E u \in UserDataSet :
          CountIn(cq, u) > 0 /\ u.lo - 1 = dloc.payload /\ is_in_flight(ref_counts, dloc.payload)

\* C18: is_in_flight(i) is true exactly when more increment_rc(i) calls than
\* decrement_rc(i) calls have returned, so that it is false once every
\* thread has finished its increment / decrement pairs.
C18_InFlightIffMoreIncrements ==
    \A i \in Slots : is_in_flight(ref_counts, i) <=> rc_returned[i] > 0

\* C20: fire_push_if_likely returns Some(true) only if the trie it loaded
\* gives probability(context, 1) > 0.85, Some(false) only if that trie gives
\* probability(context, 1) <= 0.85 and probability(context, 0) > 0.85, and
\* None when the engine is inactive or neither probability is above 0.85;
\* a call that returns Some has consumed exactly one credit, a call that
\* returns None none, and a call that finds the credit at zero when it
\* comes to consume returns None.
C20_Returns(t) == eloc[t].call = "fire" /\ epc[t] # "idle" /\ epc'[t] = "idle"
C20_Pt(t) == get_probability(published[eloc[t].ptr], eloc[t].ctx, TRUE)
C20_Pf(t) == get_probability(published[eloc[t].ptr], eloc[t].ctx, FALSE)
C20_FireResult ==
    /\ [][\A t \in EngineThreads :
            /\ ((\E ctx \in Contexts : fire_push_if_likely(t, ctx)) /\ ~active)
                  => (epc'[t] = "idle" /\ eloc'[t].ret = None)
            /\ C20_Returns(t) =>
                  /\ eloc'[t].ret = <<TRUE>> => AboveThreshold(C20_Pt(t))
                  /\ eloc'[t].ret = <<FALSE>>
                        => (~AboveThreshold(C20_Pt(t)) /\ AboveThreshold(C20_Pf(t)))
                  /\ epc[t] = "ptrue"
                        => (~AboveThreshold(C20_Pt(t)) /\ ~AboveThreshold(C20_Pf(t))
                             /\ eloc'[t].ret = None)
                  /\ epc[t] = "decided" => (iiw_credit = 0 /\ eloc'[t].ret = None)
                  /\ eloc'[t].consumed <=> eloc'[t].ret # None
                  /\ iiw_credit' = iiw_credit - (IF eloc'[t].ret = None THEN 0 ELSE 1)
            /\ (epc[t] = "ptrue" /\ epc'[t] = "decided")
                  => (AboveThreshold(C20_Pt(t)) \/ AboveThreshold(C20_Pf(t)))
            /\ (epc[t] = "decided" /\ iiw_credit = 0 /\ eloc'[t] # eloc[t])
                  => C20_Returns(t)]_vars
    /\ [][iiw_credit' # iiw_credit
            => \E t \in EngineThreads : C20_Returns(t) /\ eloc'[t].ret # None]_vars

\* C20 witness: a call that passed the credit check and decided to push
\* finds the credit at zero, another call having taken the last one
C20_Witness ==
    \E t \in EngineThreads :
        /\ eloc[t].call = "fire" /\ epc[t] = "decided"
        /\ eloc[t].decision = <<FALSE>>
        /\ iiw_credit = 0

\* C21: a train call on an inactive engine changes no trie; a train call on
\* an active engine that no other call overlaps leaves the weight of the
\* observed outcome at the leaf of its context at min(255, weight before + 1)
\* for a cluster-integrated session and min(255, weight before + 2) for a
\* sovereign-autonomous one.
C21_Weight(t, ctx, bit) ==
    LET node == get_node_at_path(t, ctx)
    IN  IF node = <<>> THEN 0 ELSE node[1].weights[(IF bit THEN 1 ELSE 0) + 1]
C21_TrainRecords ==
    [][\A t \in EngineCallers :
          /\ ((\E ctx \in Contexts, bit \in BOOLEAN : TrainBegin(t, ctx, bit)) /\ ~active)
                => (tries' = tries /\ epc'[t] = "idle")
          /\ (eloc[t].call = "train" /\ epc[t] = "training" /\ epc'[t] = "idle")
                => C21_Weight(tries'[eloc[t].ptr].trie, eloc[t].ctx, eloc[t].decision[1])
                     = Min(255, C21_Weight(eloc[t].before[1], eloc[t].ctx, eloc[t].decision[1])
                                  + (IF mode = "ClusterIntegrated" THEN 1 ELSE 2))]_vars
C21_Witness ==
    \E t \in EngineCallers :
        /\ eloc[t].call = "train" /\ epc[t] = "idle" /\ active
        /\ mode = "SovereignAutonomous"
        /\ C21_Weight(published[trie_ptr], CtxA, TRUE) = 254
        /\ C21_Weight(tries[trie_ptr].trie, CtxA, TRUE) = 255

\* C22: for the trie reached by any sequence of observe, warm,
\* associate_payload and merge_newer calls and every context, the two f32
\* values get_probability returns for false and for true add up (in f32) to
\* 0.0 when the bit path is missing or both leaf weights are 0 and to 1.0
\* otherwise, and each is the quotient w[outcome] / (w[0] + w[1]) of the
\* terminal node; a get_probability call returns these values.
C22_Contexts == Contexts \cup {<<>>, <<1, 2>>}
C22_Value(c, bit) ==
    LET node == get_node_at_path(trie_self, c)
    IN  IF node = <<>> \/ node[1].weights[1] + node[1].weights[2] = 0 THEN F32Zero
        ELSE F32Div(node[1].weights[(IF bit THEN 1 ELSE 0) + 1],
                    node[1].weights[1] + node[1].weights[2])
C22_ProbabilitySum ==
    /\ \A c \in C22_Contexts :
          LET node == get_node_at_path(trie_self, c)
              p_false == get_probability_f32(trie_self, c, FALSE)
              p_true == get_probability_f32(trie_self, c, TRUE)
          IN  /\ p_false = C22_Value(c, FALSE)
              /\ p_true = C22_Value(c, TRUE)
              /\ F32Add(p_false, p_true)
                   = IF node = <<>> \/ node[1].weights = <<0, 0>> THEN F32Zero ELSE F32One
    /\ trieOp.op = "get_probability"
          => trieOp.ret = <<C22_Value(trieOp.context, FALSE), C22_Value(trieOp.context, TRUE)>>
C22_Witness ==
    /\ trieOp.op = "get_probability" /\ trieOp.n = MaxTrieOps
    /\ trieOp.ret[1].m \notin {0, 2 ^ 23}
    /\ trieOp.ret[1].m % 2 = 1 /\ trieOp.ret[2].m % 2 = 1
    /\ F32Add(trieOp.ret[1], trieOp.ret[2]) = F32One

\* C23: a merge_newer(other) call with other.sequence_number <=
\* self.sequence_number, or with node pools of different lengths, returns
\* false and leaves self (its nodes and its sequence_number) as it was.
C23_MergeRefused ==
    [][\A other \in PeerTries :
          (TrieMergeNewer(other)
             /\ (other.sequence_number <= trie_self.sequence_number
                   \/ Len(other.nodes) # Len(trie_self.nodes)))
          => (trieOp'.ret = <<FALSE>> /\ trie_self' = trie_self)]_vars
C23_Witness ==
    /\ trieOp.op = "merge_newer" /\ trieOp.ret = <<FALSE>>
    /\ trieOp.other[1].sequence_number > trieOp.before[1].sequence_number
    /\ Len(trieOp.other[1].nodes) # Len(trieOp.before[1].nodes)
    /\ Len(trieOp.before[1].nodes) > 1

\* C24: a merge_newer(other) call with other.sequence_number >
\* self.sequence_number and node pools of the same length returns true; then
\* at every index each weight is min(255, self's + other's), version and
\* payload handle are other's where other's version was strictly greater and
\* unchanged elsewhere, and self.sequence_number is other.sequence_number.
C24_Merged ==
    [][\A other \in PeerTries :
          (TrieMergeNewer(other)
             /\ other.sequence_number > trie_self.sequence_number
             /\ Len(other.nodes) = Len(trie_self.nodes))
          => /\ trieOp'.ret = <<TRUE>>
             /\ trie_self'.sequence_number = other.sequence_number
             /\ Len(trie_self'.nodes) = Len(trie_self.nodes)
             /\ \A i \in 1..Len(trie_self.nodes) :
                   LET mine == trie_self.nodes[i]
                       theirs == other.nodes[i]
                       merged == trie_self'.nodes[i]
                   IN  /\ \A b \in 1..2 :
                             merged.weights[b] = Min(255, mine.weights[b] + theirs.weights[b])
                       /\ IF theirs.version_id > mine.version_id
                          THEN /\ merged.version_id = theirs.version_id
                               /\ merged.payload_handle = theirs.payload_handle
                          ELSE /\ merged.version_id = mine.version_id
                               /\ merged.payload_handle = mine.payload_handle]_vars
C24_Witness ==
    /\ trieOp.op = "merge_newer" /\ trieOp.ret = <<TRUE>>
    /\ \E i \in 1..Len(trie_self.nodes) :
          /\ trieOp.before[1].nodes[i].weights[2] + trieOp.other[1].nodes[i].weights[2] > 255
          /\ trie_self.nodes[i].weights[2] = 255
    /\ \E i \in 1..Len(trie_self.nodes) :
          /\ trieOp.other[1].nodes[i].version_id > trieOp.before[1].nodes[i].version_id
          /\ trie_self.nodes[i].payload_handle = trieOp.other[1].nodes[i].payload_handle

\* C25: an observe(c, b) call raises weights[b] of the leaf of c by exactly 1
\* when it is below 255 and leaves it at 255 otherwise; it changes neither
\* the other weight of that leaf nor any weight of another node (the nodes it
\* creates have weights 0), so no weight ever decreases.
C25_Leaf(t, c) == WalkFrom(t.nodes, 0, BitPath(c))
C25_WeightsAt(t, idx) == IF idx + 1 \in 1..Len(t.nodes) THEN t.nodes[idx + 1].weights ELSE <<0, 0>>
C25_ObserveSaturates ==
    [][\A c \in Contexts, bit \in BOOLEAN :
          TrieObserve(c, bit)
          => LET leaf == C25_Leaf(trie_self', c)
                 b == (IF bit THEN 1 ELSE 0) + 1
                 was == C25_WeightsAt(trie_self, IF C25_Leaf(trie_self, c) = NULL_NODE
                                                  THEN Len(trie_self'.nodes)
                                                  ELSE C25_Leaf(trie_self, c))
             IN  /\ leaf # NULL_NODE
                 /\ C25_WeightsAt(trie_self', leaf)[b] = (IF was[b] < 255 THEN was[b] + 1 ELSE 255)
                 /\ C25_WeightsAt(trie_self', leaf)[3 - b] = was[3 - b]
                 /\ \A i \in 0..(Len(trie_self'.nodes) - 1) :
                       i # leaf => C25_WeightsAt(trie_self', i) = C25_WeightsAt(trie_self, i)]_vars
C25_Witness ==
    /\ trieOp.op = "observe"
    /\ C25_Leaf(trieOp.before[1], trieOp.context) # NULL_NODE
    /\ C25_WeightsAt(trieOp.before[1], C25_Leaf(trieOp.before[1], trieOp.context))[2] = 255
    /\ trieOp.next_bit
    /\ C25_WeightsAt(trie_self, C25_Leaf(trie_self, trieOp.context))[2] = 255

\* C26: after a warm(p) call get_node_at_path(p) is Some; every node that
\* existed keeps its weights, payload handle and version; and the children
\* links and the node count are those observe(p, _) gives from the same trie.
C26_Shape(t) == [i \in 1..Len(t.nodes) |-> t.nodes[i].children]
C26_WarmCreatesPath ==
    [][\A p \in Contexts :
          TrieWarm(p)
          => /\ get_node_at_path(trie_self', p) # <<>>
             /\ \A i \in 1..Len(trie_self.nodes) :
                   /\ trie_self'.nodes[i].weights = trie_self.nodes[i].weights
                   /\ trie_self'.nodes[i].payload_handle = trie_self.nodes[i].payload_handle
                   /\ trie_self'.nodes[i].version_id = trie_self.nodes[i].version_id
             /\ \A bit \in BOOLEAN : C26_Shape(trie_self') = C26_Shape(observe(trie_self, p, bit))
             /\ trie_self'.sequence_number = trie_self.sequence_number]_vars
C26_Witness ==
    /\ trieOp.op = "warm"
    /\ Len(trie_self.nodes) > Len(trieOp.before[1].nodes)
    /\ \E i \in 1..Len(trieOp.before[1].nodes) : trieOp.before[1].nodes[i].weights # <<0, 0>>
    /\ \E i \in 1..Len(trieOp.before[1].nodes) : trieOp.before[1].nodes[i].payload_handle # 0

\* C27: an associate_payload(c, h, v) call on a trie that holds the bit path
\* of c leaves payload_handle = h and version_id = v on the node
\* get_node_at_path(c) returns and changes nothing else; on a trie that does
\* not hold the path it changes nothing and creates no node.
C27_AssociateWritesLeaf ==
    [][\A c \in Contexts, h \in TrieHandles, v \in TrieVersions :
          TrieAssociatePayload(c, h, v)
          => LET leaf == C25_Leaf(trie_self, c)
             IN  IF leaf = NULL_NODE THEN trie_self' = trie_self
                 ELSE /\ get_node_at_path(trie_self', c)[1].payload_handle = h
                      /\ get_node_at_path(trie_self', c)[1].version_id = v
                      /\ Len(trie_self'.nodes) = Len(trie_self.nodes)
                      /\ trie_self'.sequence_number = trie_self.sequence_number
                      /\ \A i \in 1..Len(trie_self.nodes) :
                            /\ i # leaf + 1 => trie_self'.nodes[i] = trie_self.nodes[i]
                            /\ trie_self'.nodes[i].children = trie_self.nodes[i].children
                            /\ trie_self'.nodes[i].weights = trie_self.nodes[i].weights]_vars
C27_Witness ==
    /\ trieOp.op = "associate_payload"
    /\ C25_Leaf(trieOp.before[1], trieOp.context) # NULL_NODE
    /\ get_node_at_path(trieOp.before[1], trieOp.context)[1].payload_handle # trieOp.handle
    /\ get_node_at_path(trie_self, trieOp.context)[1].payload_handle = trieOp.handle
    /\ Len(trie_self.nodes) > 9

\* C28: get_version(i) after set_version(i, v) returns v; an
\* increment_version(i) call returns (without panicking) a value that is the
\* previous version plus one, greater than it as a 32-bit unsigned number, and
\* is the version the slot then holds; and the values increment_version
\* calls of any threads have returned for a slot since its last set_version
\* are pairwise distinct.
C28_Distinct(values) ==
    \A j, k \in 1..Len(values) : j # k => values[j] # values[k]
C28_VersionCalls ==
    /\ [][\A t \in SlabThreads, idx \in Slots :
            /\ \A v \in VersionArgs :
                  SlabSetVersion(t, idx, v) => get_version(version_ids', idx) = v
            /\ (SlabGetVersion(t, idx) /\ slabOp.op = "set_version" /\ slabOp.idx = idx)
                  => slabOp'.seen = slabOp.seen
            /\ SlabIncrementVersion(t, idx)
                  => /\ ~slabOp'.panicked
                     /\ Len(ver_returned'[idx]) = Len(ver_returned[idx]) + 1
                     /\ LET ret == ver_returned'[idx][Len(ver_returned'[idx])]
                        IN  /\ ret = version_ids[idx] + 1
                            /\ UGreater(ret, version_ids[idx])
                            /\ get_version(version_ids', idx) = ret]_vars
    /\ [](\A idx \in Slots : C28_Distinct(ver_returned[idx]))

\* C29: an Integrated monitor becomes Sovereign on a record_miss call exactly
\* when that call is the 3rd record_miss in a row (no record_success in
\* between), and a Sovereign monitor becomes Integrated on a record_success
\* call exactly when that call is the 10th record_success in a row (no
\* record_miss in between); no other call changes the mode.
C29_Hysteresis ==
    [][/\ RecordMiss =>
            IF mon.mode = "Integrated"
            THEN mon'.mode = "Sovereign" <=> monRun'.misses = 3
            ELSE mon'.mode = "Sovereign"
       /\ RecordSuccess =>
            IF mon.mode = "Sovereign"
            THEN mon'.mode = "Integrated" <=> monRun'.successes = 10
            ELSE mon'.mode = "Integrated"
       /\ MonTimePasses => mon'.mode = mon.mode]_vars
C29_Witness ==
    /\ mon.mode = "Integrated" /\ monRun.was_sovereign
    /\ monRun.successes = 10

\* C30: an evaluate_intent_credit(rtt) call with rtt > 1.2 x base_rtt stores
\* level 0 and returns 0; any other call returns the stored level and leaves
\* it unchanged (2 for a controller nothing was called on yet); and after
\* notify_loss every call returns 0, whatever the RTT.
C30_Exceeds(rtt, base_rtt) == LimbsGreater(WideMul(rtt, 10), WideMul(base_rtt, 12))
C30_EvaluateCredit ==
    [][\A rtt \in Rtts :
          CcEvaluate(rtt)
          => /\ ~ccOp'.panicked
             /\ IF C30_Exceeds(rtt, cc.base_rtt)
                THEN cc'.active_level = 0 /\ ccOp'.ret = 0
                ELSE cc' = cc /\ ccOp'.ret = cc.active_level
             /\ (ccOp = NoCcOp /\ ~C30_Exceeds(rtt, cc.base_rtt)) => ccOp'.ret = 2
             /\ ccOp.lost => ccOp'.ret = 0]_vars

\* C40: the stored congestion level never increases, and once a call has seen
\* an RTT above 1.2 x base_rtt or notify_loss has been called, every later
\* evaluate_intent_credit call returns 0, whatever its RTT.
C40_Above(rtt, base_rtt) == LimbsGreater(WideMul(rtt, 10), WideMul(base_rtt, 12))
C40_BackedOff ==
    \/ cc.active_level = 0
    \/ ccOp.lost
    \/ ccOp.op = "evaluate_intent_credit" /\ C40_Above(ccOp.rtt, cc.base_rtt)
C40_LevelNeverRises ==
    [][/\ cc'.active_level <= cc.active_level
       /\ \A rtt \in Rtts :
             (CcEvaluate(rtt) /\ C40_BackedOff)
             => (~ccOp'.panicked /\ ccOp'.ret = 0 /\ cc'.active_level = 0)]_vars

\* C36: while no replenish occurs, of the consume_credit calls that threads
\* have made on one session (directly or inside fire_push_if_likely /
\* predict_for_path), exactly min(calls, credit at the start) returned true:
\* every grant took one credit, no credit went without a grant, and never
\* more than 10 are granted.
C36_CreditGrants ==
    grants.counting
    => /\ grants.granted = Min(grants.calls, grants.start)
       /\ iiw_credit = grants.start - grants.granted
       /\ grants.granted <= InitialCredit
\* a thread loaded the last credit, and the other thread took it before the
\* first one's compare-exchange
C36_Witness ==
    /\ grants.counting /\ grants.start = 2 /\ grants.granted = 2
    /\ iiw_credit = 0
    /\ \E t \in EngineThreads : epc[t] = "cas" /\ eloc[t].current = 1

\* C39: with no client acknowledgement, the worker's dispatcher submits at
\* most 10 speculative pushes to one peer, over any sequence of datagrams
\* received from that peer.
C39_BudgetAcrossDatagrams ==
    sent.counting => \A a \in Addrs : sent.to[a] <= InitialCredit

\* C38: a worker takes the SwapTrie signals in the order they were sent, and
\* handling SwapTrie(s) leaves its engine resolving against a trie equal to s,
\* never lowers the sequence number of the trie installed in the worker, and
\* changes no slab reference count and no slab version.
C38_Seq(ptr, heap) == heap[ptr].trie.sequence_number
C38_InstallsSnapshot ==
    [][WorkerHandleControl
       => /\ tries'[trie_ptr'].live
          /\ tries'[trie_ptr'].trie = Head(control_q[ThisWorker]).trie
          /\ control_q'[ThisWorker] = Tail(control_q[ThisWorker])
          /\ C38_Seq(trie_ptr', tries') >= C38_Seq(trie_ptr, tries)
          /\ ref_counts' = ref_counts /\ version_ids' = version_ids]_vars

\* C34: for the handles submit_linked_burst accepts, the tag
\* (payload + 1) | ((template + 1) << 32) is not zero and reads back as the
\* same two handles, and reap_completions lowers the count of the payload
\* slot and of the template slot by one for every completion it takes (by two
\* on a slot that is both).
C34_Refs(q, i) ==
    IF q = <<>> THEN 0
    ELSE SumOver(1 .. Len(q),
                 [k \in 1 .. Len(q) |->
                    (IF q[k].lo = i + 1 THEN 1 ELSE 0) + (IF q[k].hi = i + 1 THEN 1 ELSE 0)])
C34_TagRoundTrip ==
    [][/\ (SubmitCommit /\ dres' = "ok")
          => \E u \in UserDataSet :
                /\ (Unreaped(u))' = Unreaped(u) + 1
                /\ \A v \in UserDataSet \ {u} : (Unreaped(v))' = Unreaped(v)
                /\ u.lo # 0 /\ u.hi # 0
                /\ DecodePayload(u) = dloc.payload
                /\ DecodeTemplate(u) = dloc.template
       /\ ReapCompletions
          => /\ cq' = <<>> /\ dpc' = "idle"
             /\ \A i \in Slots : ref_counts'[i] = ref_counts[i] - C34_Refs(cq, i)]_vars
\* the last submission named slot 1 as payload and as template, and all
\* completions have been reaped: the count of slot 1 is back at zero
C34_Witness ==
    /\ dres = "ok" /\ dloc.payload = 1 /\ dloc.template = 1
    /\ sq = <<>> /\ cq = <<>> /\ \A u \in UserDataSet : kernel[u] = 0
    /\ ref_counts[1] = 0

\* C35: after any sequence of observe, warm, associate_payload and
\* merge_newer calls the root exists, every non-null child index is below the
\* node count, every node but the root is the child of exactly one node, a
\* walk along any path stays inside the pool, and a call never removes or
\* re-links a node: the pool only grows by appending.
C35_Links(nodes, i) ==
    {pb \in (1 .. Len(nodes)) \X {1, 2} : nodes[pb[1]].children[pb[2]] = i}
C35_WellFormed(nodes) ==
    /\ Len(nodes) >= 1
    /\ \A k \in 1 .. Len(nodes), b \in {1, 2} :
          nodes[k].children[b] # NULL_NODE
          => (nodes[k].children[b] >= 0 /\ nodes[k].children[b] < Len(nodes))
    /\ \A i \in 1 .. (Len(nodes) - 1) : Cardinality(C35_Links(nodes, i)) = 1
    /\ \A path \in Contexts :
          LET curr == WalkFrom(nodes, 0, BitPath(path))
          IN  curr # NULL_NODE => (curr >= 0 /\ curr < Len(nodes))
C35_AppendOnly(old, new) ==
    /\ Len(new) >= Len(old)
    /\ \A k \in 1 .. Len(old), b \in {1, 2} :
          IF old[k].children[b] # NULL_NODE
          THEN new[k].children[b] = old[k].children[b]
          ELSE new[k].children[b] = NULL_NODE \/ new[k].children[b] >= Len(old)
C35_PoolShape ==
    /\ [](C35_WellFormed(trie_self.nodes))
    /\ [][C35_AppendOnly(trie_self.nodes, trie_self'.nodes)]_vars
\* a trie that has grown both paths (they part after six bits) and then merged
\* a peer's trie
C35_Witness ==
    /\ trieOp.op = "merge_newer" /\ trieOp.ret = <<TRUE>>
    /\ Len(trie_self.nodes) = 11
    /\ Len(trieOp.before[1].nodes) = 11

\* C31: try_push returns Err(Congested) at once, storing nothing, exactly when
\* the ring holds capacity items that pop has not taken out, and stores the
\* item otherwise; the number of such items is never above the power-of-two
\* capacity, also once head and tail have wrapped past usize::MAX.
C31_Unpopped == Len(blog.pushed) - Len(blog.popped)
C31_CongestedWhenFull ==
    /\ [](/\ is_power_of_two(bridge.mask + 1)
          /\ C31_Unpopped >= 0 /\ C31_Unpopped <= bridge.mask + 1
          /\ bth.ppc = "load_tail" => ENABLED TryPushCheck)
    /\ [][TryPushCheck =>
             /\ (bth'.pret = "Congested") <=> (C31_Unpopped = bridge.mask + 1)
             /\ bth'.pret = "Congested" => (bth'.ppc = "idle" /\ bridge' = bridge)
             /\ bth'.pret # "Congested" => bth'.ppc = "write"]_vars
    /\ [][TryPushStore =>
             /\ bth'.pret = "Ok"
             /\ bridge.buffer[MaskIndex(bth.phead, bridge.mask)] = bth.pitem
             /\ C31_Unpopped' = C31_Unpopped + 1]_vars
\* a ring of four slots filled across the wrap (tail at usize::MAX - 1, head at
\* 2) refuses the fifth item
C31_Witness ==
    /\ bridge.mask + 1 = 4 /\ bridge.tail = -2 /\ bridge.head = 2
    /\ bth.pret = "Congested" /\ bth.pitem = 5
    /\ \A i \in 0 .. 3 : bridge.buffer[i] # NoItem

\* C37: with one producer in try_push and one consumer in pop, interleaved in
\* any way, pop hands out the stored items once each and in the order they
\* were stored, returns None only when every stored item has been handed out,
\* and try_push never writes a slot whose item has not been taken out (nor
\* while pop is reading that slot).
C37_InOrder ==
    /\ Len(blog.popped) <= Len(blog.pushed)
    /\ \A i \in 1 .. Len(blog.popped) : blog.popped[i] = blog.pushed[i]
    /\ \A i, j \in 1 .. Len(blog.pushed) : i # j => blog.pushed[i] # blog.pushed[j]
    /\ \A i \in 1 .. Len(blog.pushed) : blog.pushed[i] # NoItem
C37_NoRace ==
    ~ (/\ bth.ppc = "write" /\ bth.cpc = "replace"
       /\ MaskIndex(bth.phead, bridge.mask) = MaskIndex(bth.ctail, bridge.mask))
C37_SpscOrder ==
    /\ [](C37_InOrder /\ C37_NoRace)
    /\ [][(PopCheck /\ bth'.cret = <<NoItem>>) => blog.popped = blog.pushed]_vars
    /\ [][PopStore => /\ Len(blog.pushed) > Len(blog.popped)
                      /\ bth'.cret = <<blog.pushed[Len(blog.popped) + 1]>>]_vars
    /\ [][TryPushWrite => bridge.buffer[MaskIndex(bth.phead, bridge.mask)] = NoItem]_vars
\* the producer about to write one slot of a two-slot ring while the consumer
\* is taking the item out of the other, after the indices have wrapped
C37_Witness ==
    /\ bridge.mask + 1 = 2 /\ bridge.tail >= 0 /\ Len(blog.popped) = 3
    /\ bth.ppc = "write" /\ bth.cpc = "replace"
    /\ blog.popped = SubSeq(blog.pushed, 1, 3) /\ Len(blog.pushed) = 4

\* C32: a task running listen forwards a received delta only if its
\* sequence_number is strictly greater than the highest one accepted so far
\* (last_seq); so the deltas it forwards carry strictly increasing sequence
\* numbers and a replayed or older delta is never forwarded.
C32_By(l) == SelectSeq(gossip.forwarded, LAMBDA f : f.by = l)
C32_Accepted == {gossip.forwarded[i].seq : i \in 1 .. Len(gossip.forwarded)}
                   \cup {gl[l].delta : l \in {k \in Listeners : gl[k].pc = "send"}}
C32_ForwardsNewerOnly ==
    /\ [](/\ \A l \in Listeners : \A i, j \in 1 .. Len(C32_By(l)) :
                i < j => C32_By(l)[i].seq < C32_By(l)[j].seq
          /\ \A i, j \in 1 .. Len(gossip.forwarded) :
                i # j => gossip.forwarded[i].seq # gossip.forwarded[j].seq
          /\ \A s \in C32_Accepted : s <= gossip.last_seq /\ s > 0
          /\ gossip.last_seq \in C32_Accepted \cup {0})
    /\ [][\A l \in Listeners :
             /\ (ListenDecide(l) /\ gl'[l].pc = "send")
                   => /\ \A s \in C32_Accepted : gl[l].delta > s
                      /\ gl[l].delta > gossip.last_seq
             /\ ListenSend(l)
                   => \A i \in 1 .. Len(gossip.forwarded) :
                         gossip.forwarded[i].by = l => gossip.forwarded[i].seq < gl[l].delta
             /\ (ListenDecide(l) /\ ~SeqNewer(gl[l].delta, gossip.last_seq))
                   => (gl'[l].pc = "recv" /\ gossip' = gossip)]_vars
\* a listener that forwarded 1 and then 2 and now holds a replay of 1, read
\* against a last_seq of 2
C32_Witness ==
    /\ \E l \in Listeners : /\ C32_By(l) = <<[by |-> l, seq |-> 1], [by |-> l, seq |-> 2]>>
                            /\ gl[l].pc = "decide" /\ gl[l].delta = 1 /\ gl[l].current = 2
    /\ gossip.last_seq = 2

\* C33: in guarded mode with N slots the mapping has 2N+1 pages, the odd pages
\* 1, 3, ..., 2N-1 readable and writable and every even page inaccessible;
\* get_slot(i) for i < N is the start of page 1+2i, so two slots never overlap
\* and each has an inaccessible page right before and right after it;
\* get_slot(i) and every RC or version call with i >= N panics on its
\* assertion and leaves the slab as it was.
C33_Page(offset) == offset \div PAGE_SIZE
C33_Guarded(m) ==
    /\ m.total_len = (2 * m.slots + 1) * PAGE_SIZE
    /\ DOMAIN m.prot = 0 .. (2 * m.slots)
    /\ \A p \in DOMAIN m.prot : m.prot[p] = (IF p % 2 = 1 THEN "READ_WRITE" ELSE "NONE")
    /\ \A i \in 0 .. (m.slots - 1) :
          LET offset == get_slot_offset(m, i)
          IN  /\ offset % PAGE_SIZE = 0 /\ C33_Page(offset) = 1 + 2 * i
              /\ {C33_Page(offset) - 1, C33_Page(offset) + 1} \subseteq DOMAIN m.prot
              /\ m.prot[C33_Page(offset)] = "READ_WRITE"
              /\ m.prot[C33_Page(offset) - 1] = "NONE"
              /\ m.prot[C33_Page(offset) + 1] = "NONE"
    /\ \A i, j \in 0 .. (m.slots - 1) :
          i < j => get_slot_offset(m, i) + PAGE_SIZE <= get_slot_offset(m, j)
C33_GuardedLayout ==
    /\ [](~slab_map.huge_mode =>
             /\ C33_Guarded(slab_map)
             /\ (slabOp.op = "get_slot" /\ ~slabOp.panicked)
                   => slabOp.seen = (1 + 2 * slabOp.idx) * PAGE_SIZE)
    /\ [][(slabOp' # slabOp /\ slabOp'.idx >= slab_map.slots)
             => /\ slabOp'.panicked
                /\ UNCHANGED <<ref_counts, version_ids, slab_map>>]_vars
    /\ [][(slabOp' # slabOp /\ slabOp'.op = "get_slot" /\ slabOp'.idx < slab_map.slots)
             => ~slabOp'.panicked]_vars
\* get_slot(1) of a guarded slab: the start of page 3
C33_Witness ==
    /\ ~slab_map.huge_mode
    /\ slabOp.op = "get_slot" /\ slabOp.idx = 1 /\ ~slabOp.panicked
    /\ slabOp.seen = 3 * PAGE_SIZE /\ slab_map.prot[3] = "READ_WRITE"

\* C10: after the worker has handled Pivot(addr) it submits no further
\* speculative push to addr for a datagram received later from addr.
C10_NoPushAfterPivot ==
    \A a \in Addrs : pushes[a] = 0

====
